---- MODULE Spec2Model ----
(***************************************************************************)
(* A model of the eigen-stuff-calculator pipeline: the symbolic matrix     *)
(* xI - A, the determinant expression written as a string, the polynomial  *)
(* expander, the real-root solver, the row reduction and the null space.   *)
(*                                                                         *)
(* Strings are sequences of lexemes.  A lexeme is a record [c, v]: either  *)
(* one character (or one LaTeX command) c with v = 0, or an unsigned       *)
(* number literal (c = "num") of value v.  A negative number is written,   *)
(* as JavaScript writes it, as the character "-" followed by a literal.    *)
(***************************************************************************)
EXTENDS Integers, Sequences, FiniteSets, TLC

(***************************************************************************)
(* Bounds of the model.                                                    *)
(***************************************************************************)
\* at most this many non-zero cells in an input matrix
MaxNonZero == 3

\* the cell values a user types: -MaxEntry .. MaxEntry
MaxEntry == 1

\* the largest order MatrixInput accepts
MaxOrder == 5

(***************************************************************************)
(* Lexemes and string helpers.                                             *)
(***************************************************************************)
Ch(c) == [c |-> c, v |-> 0]

Num(n) == [c |-> "num", v |-> n]

\* `${n}` for an integer n (String(-0) is "0")
NumStr(n) == IF n < 0 THEN <<Ch("-"), Num(-n)>> ELSE <<Num(n)>>

RECURSIVE Concat(_)
Concat(ss) == IF ss = <<>> THEN <<>> ELSE Head(ss) \o Concat(Tail(ss))

\* Array.prototype.join
RECURSIVE Join(_, _)
Join(ss, sep) ==
  IF ss = <<>> THEN <<>>
  ELSE IF Len(ss) = 1 THEN ss[1]
  ELSE ss[1] \o sep \o Join(Tail(ss), sep)

Abs(a) == IF a < 0 THEN -a ELSE a

(***************************************************************************)
(* Matrices are sequences of rows.  A cell of the symbolic matrix is       *)
(* either a number (k = "num", value n) or a string (k = "str", text s).   *)
(***************************************************************************)
NumCell(n) == [k |-> "num", n |-> n, s |-> <<>>]

StrCell(s) == [k |-> "str", n |-> 0, s |-> s]

\* `${cell}` inside a template string
CellStr(cell) == IF cell.k = "str" THEN cell.s ELSE NumStr(cell.n)

\* cell === 0 (true of -0 as well)
IsZeroCell(cell) == cell.k = "num" /\ cell.n = 0

ZeroMatrix(n) == [i \in 1..n |-> [j \in 1..n |-> 0]]

createXIMinusAMatrix(inputMatrix) ==
  LET n == Len(inputMatrix) IN
  [i \in 1..n |-> [j \in 1..n |->
     IF i = j
     THEN LET value == inputMatrix[i][j] IN
          IF value = 0 THEN StrCell(<<Ch("x")>>)
          ELSE IF value > 0
               THEN StrCell(<<Ch("x"), Ch(" "), Ch("-"), Ch(" "), Num(value)>>)
               ELSE StrCell(<<Ch("x"), Ch(" "), Ch("+"), Ch(" "), Num(Abs(value))>>)
     ELSE NumCell(-inputMatrix[i][j])]]

isTriangularMatrix(matrix) ==
  LET n == Len(matrix)
      isUpper == \A i \in 1..n : \A j \in 1..n : i > j => IsZeroCell(matrix[i][j])
      isLower == \A i \in 1..n : \A j \in 1..n : i < j => IsZeroCell(matrix[i][j])
  IN isUpper \/ isLower

\* the minor that removes row 0 and the 0-based column j
getMinor(matrix, j) ==
  LET n == Len(matrix) IN
  [i \in 1..(n - 1) |-> [k \in 1..(n - 1) |->
     matrix[i + 1][IF k <= j THEN k ELSE k + 1]]]

calculateTriangularDeterminant(matrix) ==
  Join([i \in 1..Len(matrix) |->
          <<Ch("(")>> \o CellStr(matrix[i][i]) \o <<Ch(")")>>],
       <<Ch(" "), Ch("\\cdot"), Ch(" ")>>)

calculate2x2Determinant(matrix) ==
  LET a == matrix[1][1]
      b == matrix[1][2]
      c == matrix[2][1]
      d == matrix[2][2]
  IN <<Ch("(")>> \o CellStr(a) \o <<Ch(")"), Ch("(")>> \o CellStr(d)
       \o <<Ch(")"), Ch(" "), Ch("-"), Ch(" "), Ch("(")>> \o CellStr(b)
       \o <<Ch(")"), Ch("(")>> \o CellStr(c) \o <<Ch(")")>>

(***************************************************************************)
(* determinantFinder, recursive version: assembleNbyNDeterminantExpression *)
(***************************************************************************)
\* the exponent of the sign of a term that counts the columns from 0
cofactorExponentFromZero(j) == <<Num(1), Ch("+"), Num(j)>>

\* ${1}+${j + 1}: the exponent of the sign (-1)^(row + column), both from 1
cofactorExponent(j) == <<Num(1), Ch("+"), Num(j + 1)>>

RECURSIVE assembleNbyNDeterminantExpression(_, _)
RECURSIVE assembleTerms(_, _, _, _)

\* the for loop over the columns j of row 0, from column j on
assembleTerms(matrix, depth, j, terms) ==
  IF j >= Len(matrix) THEN terms
  ELSE
    LET element == matrix[1][j + 1] IN
    IF IsZeroCell(element) THEN assembleTerms(matrix, depth, j + 1, terms)
    ELSE
      LET minorDet == assembleNbyNDeterminantExpression(getMinor(matrix, j), depth + 1)
          openBracket == IF depth = 0 THEN <<Ch("\\Biggl"), Ch("[")>>
                         ELSE IF depth = 1 THEN <<Ch("\\biggl"), Ch("[")>>
                         ELSE <<Ch("\\Bigl"), Ch("[")>>
          closeBracket == IF depth = 0 THEN <<Ch("\\Biggr"), Ch("]")>>
                          ELSE IF depth = 1 THEN <<Ch("\\biggr"), Ch("]")>>
                          ELSE <<Ch("\\Bigr"), Ch("]")>>
          term == <<Ch("+"), Ch("("), Ch("-"), Num(1), Ch(")"), Ch("^"), Ch("{"),
                    Ch("(")>> \o cofactorExponent(j) \o <<Ch(")"), Ch("}"), Ch("(")>>
                  \o CellStr(element) \o <<Ch(")")>>
                  \o openBracket \o minorDet \o closeBracket
      IN IF minorDet = <<>> THEN assembleTerms(matrix, depth, j + 1, terms)
         ELSE assembleTerms(matrix, depth, j + 1, Append(terms, term))

assembleNbyNDeterminantExpression(matrix, depth) ==
  LET n == Len(matrix) IN
  IF n = 1 THEN CellStr(matrix[1][1])
  ELSE IF n = 2 THEN calculate2x2Determinant(matrix)
  ELSE LET separator == IF depth = 0 THEN <<Ch(" "), Ch("\\newline"), Ch(" ")>>
                        ELSE <<Ch(" ")>>
       IN Join(assembleTerms(matrix, depth, 0, <<>>), separator)

\* calculateDeterminantExpression of the pipeline built on the recursive version
calculateDeterminantExpressionN(xIMinusA) ==
  IF isTriangularMatrix(xIMinusA) THEN calculateTriangularDeterminant(xIMinusA)
  ELSE assembleNbyNDeterminantExpression(xIMinusA, 0)

(***************************************************************************)
(* determinantFinder, per-size version: calculate3x3Determinant and        *)
(* calculateLargerDeterminant                                              *)
(***************************************************************************)
\* let sign = j % 2 === 0 ? '+' : '-'; if (j === 0 || terms.length === 0) sign = ''
termSign(j, terms) ==
  IF j = 0 \/ Len(terms) = 0 THEN <<>>
  ELSE IF j % 2 = 0 THEN <<Ch("+")>> ELSE <<Ch("-")>>

RECURSIVE calculate3x3Terms(_, _, _, _)
calculate3x3Terms(matrix, asInner, j, terms) ==
  IF j >= 3 THEN terms
  ELSE
    LET element == matrix[1][j + 1] IN
    IF IsZeroCell(element) THEN calculate3x3Terms(matrix, asInner, j + 1, terms)
    ELSE
      LET sign == termSign(j, terms)
          minorDet == calculate2x2Determinant(getMinor(matrix, j))
          term == sign \o <<Ch("(")>> \o CellStr(element)
                  \o <<Ch(")"), Ch("\\Bigl"), Ch("[")>> \o minorDet
                  \o <<Ch("\\Bigr"), Ch("]")>>
                  \o (IF j # 2 /\ ~asInner /\ Len(terms) < 2
                      THEN <<Ch("\\newline")>> ELSE <<>>)
      IN IF minorDet = <<>> THEN calculate3x3Terms(matrix, asInner, j + 1, terms)
         ELSE calculate3x3Terms(matrix, asInner, j + 1, Append(terms, term))

calculate3x3Determinant(matrix, asInner) ==
  Join(calculate3x3Terms(matrix, asInner, 0, <<>>), <<Ch(" ")>>)

NotImplementedMessage ==
  <<Ch("Determinant calculation for matrices larger than 5x5 is not implemented.")>>

RECURSIVE calculate4x4Terms(_, _, _)
calculate4x4Terms(matrix, j, terms) ==
  IF j >= 4 THEN terms
  ELSE
    LET element == matrix[1][j + 1] IN
    IF IsZeroCell(element) THEN calculate4x4Terms(matrix, j + 1, terms)
    ELSE
      LET sign == termSign(j, terms)
          minorDet == calculate3x3Determinant(getMinor(matrix, j), TRUE)
          term == sign \o <<Ch("(")>> \o CellStr(element)
                  \o <<Ch(")"), Ch("\\biggl"), Ch("[")>> \o minorDet
                  \o <<Ch("\\biggr"), Ch("]")>>
      IN IF minorDet = <<>> THEN calculate4x4Terms(matrix, j + 1, terms)
         ELSE calculate4x4Terms(matrix, j + 1, Append(terms, term))

RECURSIVE calculateLargerDeterminant(_)
RECURSIVE calculate5x5Terms(_, _, _)
calculate5x5Terms(matrix, j, terms) ==
  IF j >= 5 THEN terms
  ELSE
    LET element == matrix[1][j + 1] IN
    IF IsZeroCell(element) THEN calculate5x5Terms(matrix, j + 1, terms)
    ELSE
      LET sign == termSign(j, terms)
          minorDet == calculateLargerDeterminant(getMinor(matrix, j))
          term == sign \o <<Ch("(")>> \o CellStr(element)
                  \o <<Ch(")"), Ch("\\Biggl"), Ch("[")>> \o minorDet
                  \o <<Ch("\\Biggr"), Ch("]"), Ch("\\newline")>>
      IN IF minorDet = <<>> THEN calculate5x5Terms(matrix, j + 1, terms)
         ELSE calculate5x5Terms(matrix, j + 1, Append(terms, term))

calculateLargerDeterminant(matrix) ==
  LET n == Len(matrix) IN
  IF n = 4 THEN Join(calculate4x4Terms(matrix, 0, <<>>), <<Ch("\\newline")>>)
  ELSE IF n = 5 THEN Join(calculate5x5Terms(matrix, 0, <<>>), <<Ch(" ")>>)
  ELSE NotImplementedMessage

\* calculateDeterminantExpression of the pipeline built on the per-size version
calculateDeterminantExpression(xIMinusA) ==
  LET n == Len(xIMinusA) IN
  IF isTriangularMatrix(xIMinusA) THEN calculateTriangularDeterminant(xIMinusA)
  ELSE IF n = 1 THEN CellStr(xIMinusA[1][1])
  ELSE IF n = 2 THEN calculate2x2Determinant(xIMinusA)
  ELSE IF n = 3 THEN calculate3x3Determinant(xIMinusA, FALSE)
  ELSE calculateLargerDeterminant(xIMinusA)

(***************************************************************************)
(* latexFormatter: cleanExpressionLatex drops the sizing commands and the  *)
(* braces, writes \cdot as *, \lambda as x and brackets as parentheses.    *)
(***************************************************************************)
LatexDropped == {"\\left", "\\right", "\\Bigl", "\\Bigr", "\\biggr", "\\biggl",
                 "\\Biggl", "\\Biggr", "\\newline", "{", "}"}

cleanLexeme(l) ==
  IF l.c = "\\cdot" THEN Ch("*")
  ELSE IF l.c = "\\lambda" THEN Ch("x")
  ELSE IF l.c = "[" THEN Ch("(")
  ELSE IF l.c = "]" THEN Ch(")")
  ELSE l

IsKept(l) == l.c \notin LatexDropped

cleanExpressionLatex(expression) ==
  LET kept == SelectSeq(expression, IsKept)
  IN [i \in 1..Len(kept) |-> cleanLexeme(kept[i])]

(***************************************************************************)
(* The value of an expression string at an integer x, with the grammar of  *)
(* the math.js parser the pipeline hands the cleaned string to: + and -    *)
(* below *, * below implicit multiplication, that below the unary signs,   *)
(* those below ^, and ^ right-associative.  A result is [v, i, k]: the     *)
(* value, the position after the parsed text (0 after a syntax error) and  *)
(* the kind of the node last parsed.                                       *)
(***************************************************************************)
IsNotSpace(l) == l.c # " "

stripSpaces(str) == SelectSeq(str, IsNotSpace)

Tok(str, i) == IF i >= 1 /\ i <= Len(str) THEN str[i].c ELSE "eof"

Node(v, i, k) == [v |-> v, i |-> i, k |-> k]

SyntaxError == Node(0, 0, "error")

RECURSIVE IntPow(_, _)
IntPow(b, e) == IF e <= 0 THEN 1 ELSE b * IntPow(b, e - 1)

RECURSIVE parseAddSubtract(_, _, _)
RECURSIVE addSubtractRest(_, _, _, _)
RECURSIVE parseMultiplyDivide(_, _, _)
RECURSIVE multiplyDivideRest(_, _, _, _)
RECURSIVE parseImplicitMultiplication(_, _, _)
RECURSIVE implicitRest(_, _, _, _)
RECURSIVE parseUnary(_, _, _)
RECURSIVE parsePow(_, _, _)
RECURSIVE parseParentheses(_, _, _)

\* the one element of a singleton: Only({e(v) : v \in {d}}) is
\* LET v == d IN e(v) with d computed once
Only(S) == CHOOSE v \in S : TRUE

parseAddSubtract(str, i, x) ==
  Only({addSubtractRest(str, x, node, node.i) :
          node \in {parseMultiplyDivide(str, i, x)}})

addSubtractRest(str, x, node, i) ==
  IF Tok(str, i) \in {"+", "-"}
  THEN Only({IF rhs.i = 0 THEN SyntaxError
             ELSE addSubtractRest(str, x,
                    Node(IF Tok(str, i) = "+" THEN node.v + rhs.v
                                              ELSE node.v - rhs.v,
                         rhs.i, "op"), rhs.i) :
               rhs \in {parseMultiplyDivide(str, i + 1, x)}})
  ELSE node

parseMultiplyDivide(str, i, x) ==
  Only({multiplyDivideRest(str, x, node, node.i) :
          node \in {parseImplicitMultiplication(str, i, x)}})

multiplyDivideRest(str, x, node, i) ==
  IF Tok(str, i) = "*"
  THEN Only({IF rhs.i = 0 THEN SyntaxError
             ELSE multiplyDivideRest(str, x,
                    Node(node.v * rhs.v, rhs.i, "op"), rhs.i) :
               rhs \in {parseImplicitMultiplication(str, i + 1, x)}})
  ELSE node

parseImplicitMultiplication(str, i, x) ==
  Only({implicitRest(str, x, node, node) : node \in {parseUnary(str, i, x)}})

\* a symbol or "(" always continues the product; a number only after a node
\* that is neither a constant nor an operator
implicitRest(str, x, node, last) ==
  IF Tok(str, node.i) \in {"x", "("}
       \/ (Tok(str, node.i) = "num" /\ last.k \in {"symbol", "paren"})
  THEN Only({IF rhs.i = 0 THEN SyntaxError
             ELSE implicitRest(str, x, Node(node.v * rhs.v, rhs.i, "op"), rhs) :
               rhs \in {parseUnary(str, node.i, x)}})
  ELSE node

parseUnary(str, i, x) ==
  IF Tok(str, i) \in {"-", "+"}
  THEN Only({IF arg.i = 0 THEN SyntaxError
             ELSE Node(IF Tok(str, i) = "-" THEN -arg.v ELSE arg.v, arg.i, "op") :
               arg \in {parseUnary(str, i + 1, x)}})
  ELSE parsePow(str, i, x)

parsePow(str, i, x) ==
  Only({IF Tok(str, node.i) = "^"
        THEN Only({IF exponent.i = 0 \/ exponent.v < 0 THEN SyntaxError
                   ELSE Node(IntPow(node.v, exponent.v), exponent.i, "op") :
                     exponent \in {parseUnary(str, node.i + 1, x)}})
        ELSE node :
          node \in {parseParentheses(str, i, x)}})

parseParentheses(str, i, x) ==
  IF Tok(str, i) = "num" THEN Node(str[i].v, i + 1, "constant")
  ELSE IF Tok(str, i) = "x" THEN Node(x, i + 1, "symbol")
  ELSE IF Tok(str, i) = "("
  THEN Only({IF Tok(str, node.i) = ")" THEN Node(node.v, node.i + 1, "paren")
             ELSE SyntaxError :
               node \in {parseAddSubtract(str, i + 1, x)}})
  ELSE SyntaxError

\* the parse of a whole string without spaces: its value, or a syntax error
evaluateStripped(str, x) ==
  Only({IF node.i = Len(str) + 1 THEN node ELSE SyntaxError :
          node \in {parseAddSubtract(str, 1, x)}})

evaluate(expression, x) == evaluateStripped(stripSpaces(expression), x)

(***************************************************************************)
(* expressionDeflater: expandPolynomialManual.  A token is a record        *)
(* [type, value, num]: for a NUM token num is parseFloat(value); for the   *)
(* others value is the character.  A polynomial is the sequence of its     *)
(* coefficients in ascending order of the power.                           *)
(***************************************************************************)
Token(type, value, num) == [type |-> type, value |-> value, num |-> num]

Max(a, b) == IF a >= b THEN a ELSE b

Reverse(s) == [i \in 1..Len(s) |-> s[Len(s) + 1 - i]]

\* the literal `${n}.5`: a NUM token whose value is "half" stands for the
\* number num + 0.5
HalfLiteral(n) == [c |-> "half", v |-> n]

\* the while loop of tokenize from position i on, over the string without spaces
RECURSIVE tokenizeFrom(_, _, _)
tokenizeFrom(str, i, tokens) ==
  IF i > Len(str) THEN tokens
  ELSE
    LET char == str[i].c
        next == Tok(str, i + 1)
        times == <<Token("OP", "*", 0)>>
    IN
    IF char \in {"num", "half"}
    THEN tokenizeFrom(str, i + 1,
           Append(tokens, Token("NUM", char, str[i].v))
             \o (IF next \in {"x", "("} THEN times ELSE <<>>))
    ELSE IF char = "x"
    THEN tokenizeFrom(str, i + 1,
           Append(tokens, Token("VAR", "x", 0))
             \o (IF next = "(" THEN times ELSE <<>>))
    ELSE IF char \in {"+", "-", "*", "^"}
    THEN IF char = "-" /\ (Len(tokens) = 0
                            \/ tokens[Len(tokens)].type \in {"OP", "LPAREN"})
         THEN tokenizeFrom(str, i + 1, Append(tokens, Token("NUM", "num", -1)) \o times)
         ELSE tokenizeFrom(str, i + 1, Append(tokens, Token("OP", char, 0)))
    ELSE IF char = "("
    THEN tokenizeFrom(str, i + 1, Append(tokens, Token("LPAREN", "(", 0)))
    ELSE IF char = ")"
    THEN tokenizeFrom(str, i + 1,
           Append(tokens, Token("RPAREN", ")", 0))
             \o (IF next \in {"(", "x"} THEN times ELSE <<>>))
    ELSE tokenizeFrom(str, i + 1, tokens)

tokenize(input) == tokenizeFrom(stripSpaces(input), 1, <<>>)

\* an associativity table in which every operator is left-associative
associativityAllLeft(op) == "Left"

precedence(op) == IF op \in {"+", "-"} THEN 2 ELSE IF op = "*" THEN 3 ELSE 4

associativity(op) == IF op = "^" THEN "Right" ELSE "Left"

Pop(stack) == SubSeq(stack, 1, Len(stack) - 1)

\* the while loop that an operator token runs before it is pushed
RECURSIVE popHigherOperators(_, _, _)
popHigherOperators(token, outputQueue, operatorStack) ==
  IF Len(operatorStack) = 0
  THEN [outputQueue |-> outputQueue, operatorStack |-> operatorStack]
  ELSE
    LET top == operatorStack[Len(operatorStack)] IN
    IF top.type # "OP"
    THEN [outputQueue |-> outputQueue, operatorStack |-> operatorStack]
    ELSE IF \/ (associativity(token.value) = "Left"
                 /\ precedence(token.value) <= precedence(top.value))
            \/ (associativity(token.value) = "Right"
                 /\ precedence(token.value) < precedence(top.value))
    THEN popHigherOperators(token, Append(outputQueue, top), Pop(operatorStack))
    ELSE [outputQueue |-> outputQueue, operatorStack |-> operatorStack]

\* the while loop that a right parenthesis runs, and the pop of the left one
RECURSIVE popToLeftParen(_, _)
popToLeftParen(outputQueue, operatorStack) ==
  IF Len(operatorStack) > 0 /\ operatorStack[Len(operatorStack)].type # "LPAREN"
  THEN popToLeftParen(Append(outputQueue, operatorStack[Len(operatorStack)]),
                      Pop(operatorStack))
  ELSE [outputQueue |-> outputQueue,
        operatorStack |-> IF Len(operatorStack) > 0 THEN Pop(operatorStack)
                          ELSE operatorStack]

\* tokens.forEach from token i on, then the final emptying of the stack
RECURSIVE shuntingYardFrom(_, _, _, _)
shuntingYardFrom(tokens, i, outputQueue, operatorStack) ==
  IF i > Len(tokens) THEN outputQueue \o Reverse(operatorStack)
  ELSE
    LET token == tokens[i] IN
    IF token.type \in {"NUM", "VAR"}
    THEN shuntingYardFrom(tokens, i + 1, Append(outputQueue, token), operatorStack)
    ELSE IF token.type = "OP"
    THEN LET s == popHigherOperators(token, outputQueue, operatorStack) IN
         shuntingYardFrom(tokens, i + 1, s.outputQueue, Append(s.operatorStack, token))
    ELSE IF token.type = "LPAREN"
    THEN shuntingYardFrom(tokens, i + 1, outputQueue, Append(operatorStack, token))
    ELSE LET s == popToLeftParen(outputQueue, operatorStack) IN
         shuntingYardFrom(tokens, i + 1, s.outputQueue, s.operatorStack)

shuntingYard(tokens) == shuntingYardFrom(tokens, 1, <<>>, <<>>)

\* p[i] || 0, i counted from 1
CoeffOr0(p, i) == IF i <= Len(p) THEN p[i] ELSE 0

polyAdd(p1, p2) ==
  [i \in 1..Max(Len(p1), Len(p2)) |-> CoeffOr0(p1, i) + CoeffOr0(p2, i)]

polySub(p1, p2) ==
  [i \in 1..Max(Len(p1), Len(p2)) |-> CoeffOr0(p1, i) - CoeffOr0(p2, i)]

\* the sum of p1[i] * p2[j] over the pairs with i + j = k (i, j, k from 0)
RECURSIVE productCoeff(_, _, _, _)
productCoeff(p1, p2, k, i) ==
  IF i >= Len(p1) \/ i > k THEN 0
  ELSE (IF k - i < Len(p2) THEN p1[i + 1] * p2[k - i + 1] ELSE 0)
       + productCoeff(p1, p2, k, i + 1)

polyMultiply(p1, p2) ==
  [k \in 1..(Len(p1) + Len(p2) - 1) |-> productCoeff(p1, p2, k - 1, 0)]

RECURSIVE polyPower(_, _)
polyPower(base, exp) ==
  IF exp = 0 THEN <<1>> ELSE polyMultiply(polyPower(base, exp - 1), base)

\* An entry of the stack of evaluateRPN is a polynomial; half is set for the
\* constant of a literal with a decimal point, which is poly[1] + 0.5.  The
\* model adds and multiplies whole numbers only.
Entry(poly) == [poly |-> poly, half |-> FALSE]

\* what stack.pop() gives on an empty stack; no polynomial is empty
Undefined == Entry(<<>>)

Top(stack) == IF Len(stack) = 0 THEN Undefined ELSE stack[Len(stack)]

PopOrEmpty(stack) == IF Len(stack) = 0 THEN stack ELSE Pop(stack)

\* the coefficients of an operand of + - *
Whole(entry) == CHOOSE poly \in {entry.poly} : ~entry.half

\* the exponent taken only when it is an integer
integerExponent(b) == IF b.half THEN -1 ELSE b.poly[1]

\* Math.round(b[0]): the integer nearest to it, the upper one of two
mathRoundExponent(b) == IF b.half THEN b.poly[1] + 1 ELSE b.poly[1]

\* rpn.forEach from token i on; threw is set where the code throws
RECURSIVE evaluateRPNFrom(_, _, _)
evaluateRPNFrom(rpn, i, stack) ==
  IF i > Len(rpn)
  THEN [threw |-> FALSE, poly |-> IF Len(stack) = 0 THEN <<0>> ELSE Whole(stack[1])]
  ELSE
    LET token == rpn[i] IN
    IF token.type = "NUM"
    THEN evaluateRPNFrom(rpn, i + 1,
           Append(stack, [poly |-> <<token.num>>, half |-> token.value = "half"]))
    ELSE IF token.type = "VAR"
    THEN evaluateRPNFrom(rpn, i + 1, Append(stack, Entry(<<0, 1>>)))
    ELSE IF token.type = "OP"
    THEN LET b == Top(stack)
             a == Top(PopOrEmpty(stack))
             rest == PopOrEmpty(PopOrEmpty(stack))
         IN
         IF b = Undefined THEN [threw |-> TRUE, poly |-> <<>>]
         ELSE IF token.value = "^"
         THEN IF Len(b.poly) > 1 \/ b.poly[1] < 0
              THEN [threw |-> TRUE, poly |-> <<>>]
              ELSE IF mathRoundExponent(b) = 0
              THEN evaluateRPNFrom(rpn, i + 1, Append(rest, Entry(<<1>>)))
              ELSE IF a = Undefined THEN [threw |-> TRUE, poly |-> <<>>]
              ELSE evaluateRPNFrom(rpn, i + 1,
                     Append(rest, Entry(polyPower(Whole(a), mathRoundExponent(b)))))
         ELSE IF a = Undefined THEN [threw |-> TRUE, poly |-> <<>>]
         ELSE evaluateRPNFrom(rpn, i + 1, Append(rest, Entry(
                IF token.value = "+" THEN polyAdd(Whole(a), Whole(b))
                ELSE IF token.value = "-" THEN polySub(Whole(a), Whole(b))
                ELSE polyMultiply(Whole(a), Whole(b)))))
    ELSE evaluateRPNFrom(rpn, i + 1, stack)

evaluateRPN(rpn) == evaluateRPNFrom(rpn, 1, <<>>)

\* no coefficient is shifted
shiftNothing(finalPolyDesc) == finalPolyDesc

\* while (finalPolyDesc.length > 1 && Math.abs(finalPolyDesc[0]) < 1e-9) shift()
RECURSIVE shiftLeadingZeros(_)
shiftLeadingZeros(finalPolyDesc) ==
  IF Len(finalPolyDesc) > 1 /\ finalPolyDesc[1] = 0
  THEN shiftLeadingZeros(Tail(finalPolyDesc))
  ELSE finalPolyDesc

\* error stands for the result { expression: "Error", coefficients: [] }
expandPolynomialManual(equation) ==
  LET finalPolyAsc == evaluateRPN(shuntingYard(tokenize(equation))) IN
  IF finalPolyAsc.threw THEN [error |-> TRUE, coefficients |-> <<>>]
  ELSE [error |-> FALSE,
        coefficients |-> shiftLeadingZeros(Reverse(finalPolyAsc.poly))]

(***************************************************************************)
(* Exact arithmetic: a number of matrixOperations is a fraction            *)
(* [num, den] in lowest terms with den > 0.                                *)
(***************************************************************************)
RECURSIVE GCD(_, _)
GCD(a, b) == IF b = 0 THEN a ELSE GCD(b, a % b)

Rat(n, d) ==
  LET g == GCD(Abs(n), Abs(d))
      s == IF d < 0 THEN -1 ELSE 1
  IN [num |-> (s * n) \div g, den |-> (s * d) \div g]

RatInt(n) == [num |-> n, den |-> 1]

Zero == RatInt(0)

One == RatInt(1)

\* whole numbers are added and multiplied as such
RatAdd(a, b) ==
  IF a.den = 1 /\ b.den = 1 THEN [num |-> a.num + b.num, den |-> 1]
  ELSE Rat(a.num * b.den + b.num * a.den, a.den * b.den)

RatSub(a, b) ==
  IF a.den = 1 /\ b.den = 1 THEN [num |-> a.num - b.num, den |-> 1]
  ELSE Rat(a.num * b.den - b.num * a.den, a.den * b.den)

RatMul(a, b) ==
  IF a.den = 1 /\ b.den = 1 THEN [num |-> a.num * b.num, den |-> 1]
  ELSE Rat(a.num * b.num, a.den * b.den)

RatNeg(a) == [num |-> -a.num, den |-> a.den]

\* 1 / a, for a # 0
RatInv(a) == Rat(a.den, a.num)

(***************************************************************************)
(* matrixOperations: the elementary row operations, rref and findNullSpace.*)
(* Rows and columns are counted from 1; 0 stands for the index -1.  rref   *)
(* returns the matrix together with the list of the row operations it      *)
(* applied.                                                                *)
(***************************************************************************)
\* E1: row swap
E1(matrix, r1, r2) ==
  [i \in 1..Len(matrix) |->
     IF i = r2 THEN matrix[r1] ELSE IF i = r1 THEN matrix[r2] ELSE matrix[i]]

\* E2: row scaling
E2(matrix, r, scalar) ==
  [i \in 1..Len(matrix) |->
     IF i = r THEN [j \in 1..Len(matrix[r]) |-> RatMul(matrix[r][j], scalar)]
     ELSE matrix[i]]

\* a + b * scalar
rowReplacementSum(a, b, scalar) == RatAdd(a, RatMul(b, scalar))

\* a - b * scalar
rowReplacement(a, b, scalar) == RatSub(a, RatMul(b, scalar))

\* E3: row replacement (r2 = r2 - scalar * r1)
E3(matrix, r1, r2, scalar) ==
  [i \in 1..Len(matrix) |->
     IF i = r2
     THEN [j \in 1..Len(matrix[r2]) |->
             rowReplacement(matrix[r2][j], matrix[r1][j], scalar)]
     ELSE matrix[i]]

\* the pivot row left as it is
pivotScalarOne(pivotValue) == One

\* 1 / pivotValue
pivotScalar(pivotValue) == RatInv(pivotValue)

\* the first row from currentRow on with a non-zero entry in column col, or 0
RECURSIVE findPivotRow(_, _, _)
findPivotRow(result, col, row) ==
  IF row > Len(result) THEN 0
  ELSE IF result[row][col] # Zero THEN row
  ELSE findPivotRow(result, col, row + 1)

Step(matrix, ops) == [matrix |-> matrix, ops |-> ops]

\* step 4: the loop over the rows other than currentRow, from row on
RECURSIVE eliminateColumn(_, _, _, _)
eliminateColumn(s, col, currentRow, row) ==
  IF row > Len(s.matrix) THEN s
  ELSE IF row # currentRow /\ s.matrix[row][col] # Zero
  THEN LET multiplier == s.matrix[row][col] IN
       eliminateColumn(
         Step(E3(s.matrix, currentRow, row, multiplier),
              Append(s.ops, [op |-> "E3", r1 |-> currentRow, r2 |-> row,
                             scalar |-> multiplier])),
         col, currentRow, row + 1)
  ELSE eliminateColumn(s, col, currentRow, row + 1)

\* the loop over the columns, from col on
RECURSIVE rrefFrom(_, _, _)
rrefFrom(s, col, currentRow) ==
  IF col > Len(s.matrix[1]) \/ currentRow > Len(s.matrix) THEN s
  ELSE
    LET pivotRowIndex == findPivotRow(s.matrix, col, currentRow) IN
    IF pivotRowIndex = 0 THEN rrefFrom(s, col + 1, currentRow)
    ELSE
      LET swapped ==
            IF pivotRowIndex # currentRow
            THEN Step(E1(s.matrix, pivotRowIndex, currentRow),
                      Append(s.ops, [op |-> "E1", r1 |-> pivotRowIndex,
                                     r2 |-> currentRow, scalar |-> One]))
            ELSE s
          pivotValue == swapped.matrix[currentRow][col]
          scaled ==
            IF pivotValue # One
            THEN Step(E2(swapped.matrix, currentRow, pivotScalar(pivotValue)),
                      Append(swapped.ops, [op |-> "E2", r1 |-> currentRow,
                                           r2 |-> currentRow,
                                           scalar |-> pivotScalar(pivotValue)]))
            ELSE swapped
      IN rrefFrom(eliminateColumn(scaled, col, currentRow, 1), col + 1, currentRow + 1)

rref(matrix) == rrefFrom(Step(matrix, <<>>), 1, 1)

\* Math.abs(val) > tolerance and Math.abs(val - 1) < tolerance, tolerance
\* being 1e-12: every denominator of the model is far below 10^12, so a
\* fraction is within the tolerance of an integer only when it is that integer
AboveTolerance(val) == val # Zero

IsOneWithinTolerance(val) == val = One

\* the column of the leading 1 of a row, or 0: the scan over col with isLeading
RECURSIVE leadingOneFrom(_, _)
leadingOneFrom(rowValues, col) ==
  IF col > Len(rowValues) THEN 0
  ELSE IF IsOneWithinTolerance(rowValues[col])
          /\ \A prevCol \in 1..(col - 1) : ~AboveTolerance(rowValues[prevCol])
  THEN col
  ELSE leadingOneFrom(rowValues, col + 1)

\* the first loop: the pivot columns in the order of the rows
RECURSIVE collectPivotCols(_, _, _)
collectPivotCols(rrefMatrix, row, pivotCols) ==
  IF row > Len(rrefMatrix) THEN pivotCols
  ELSE
    LET fresh(col) == \A k \in 1..Len(pivotCols) : pivotCols[k] # col
        candidates == {col \in 1..Len(rrefMatrix[row]) :
                         /\ IsOneWithinTolerance(rrefMatrix[row][col])
                         /\ \A prevCol \in 1..(col - 1) :
                              ~AboveTolerance(rrefMatrix[row][prevCol])
                         /\ fresh(col)}
    IN IF candidates = {} THEN collectPivotCols(rrefMatrix, row + 1, pivotCols)
       ELSE collectPivotCols(rrefMatrix, row + 1,
              Append(pivotCols, CHOOSE c \in candidates : \A d \in candidates : c <= d))

\* every column taken as free
IsFreeAlways(pivotCols, col) == TRUE

IsFreeIn(pivotCols, col) == \A k \in 1..Len(pivotCols) : pivotCols[k] # col

\* the second loop: the columns that are no pivot column, in increasing order
RECURSIVE collectFreeVars(_, _, _)
collectFreeVars(pivotCols, cols, col) ==
  IF col > cols THEN <<>>
  ELSE (IF IsFreeIn(pivotCols, col) THEN <<col>> ELSE <<>>)
       \o collectFreeVars(pivotCols, cols, col + 1)

\* coeff as it is
pivotEntryUnsigned(coeff) == coeff

\* -coeff
pivotEntry(coeff) == RatNeg(coeff)

\* the loop over the rows that fills one basis vector, from row on
RECURSIVE fillBasisVector(_, _, _, _)
fillBasisVector(rrefMatrix, freeVar, row, basisVector) ==
  IF row > Len(rrefMatrix) THEN basisVector
  ELSE
    LET pivotCol == leadingOneFrom(rrefMatrix[row], 1)
        coeff == rrefMatrix[row][freeVar]
    IN IF pivotCol # 0 /\ AboveTolerance(coeff)
       THEN fillBasisVector(rrefMatrix, freeVar, row + 1,
              [basisVector EXCEPT ![pivotCol] = pivotEntry(coeff)])
       ELSE fillBasisVector(rrefMatrix, freeVar, row + 1, basisVector)

\* Array(cols).fill(0).map((_, i) => i === 0 ? 1 : 0)
firstStandardVector(cols) == [i \in 1..cols |-> IF i = 1 THEN One ELSE Zero]

findNullSpace(matrix) ==
  LET rrefMatrix == rref(matrix).matrix
      cols == Len(rrefMatrix[1])
      pivotCols == collectPivotCols(rrefMatrix, 1, <<>>)
      freeVars == collectFreeVars(pivotCols, cols, 1)
  IN IF Len(freeVars) = 0 THEN <<firstStandardVector(cols)>>
     ELSE [k \in 1..Len(freeVars) |->
             fillBasisVector(rrefMatrix, freeVars[k], 1,
               [i \in 1..cols |-> IF i = freeVars[k] THEN One ELSE Zero])]

\* the first non-zero entry of a row, or 0
RECURSIVE firstNonZero(_, _)
firstNonZero(rowValues, col) ==
  IF col > Len(rowValues) THEN 0
  ELSE IF rowValues[col] # Zero THEN col
  ELSE firstNonZero(rowValues, col + 1)

\* the loop over the rows, from row on
RECURSIVE rowEchelonFrom(_, _, _)
rowEchelonFrom(matrix, row, lastPivotCol) ==
  IF row > Len(matrix) THEN TRUE
  ELSE
    LET pivotCol == firstNonZero(matrix[row], 1) IN
    IF pivotCol = 0
    THEN \A nextRow \in (row + 1)..Len(matrix) : firstNonZero(matrix[nextRow], 1) = 0
    ELSE IF pivotCol <= lastPivotCol THEN FALSE
    ELSE rowEchelonFrom(matrix, row + 1, pivotCol)

isRowEchelonForm(matrix) == rowEchelonFrom(matrix, 1, 0)

isReducedRowEchelonForm(matrix) ==
  /\ isRowEchelonForm(matrix)
  /\ \A row \in 1..Len(matrix) :
       LET pivotCol == firstNonZero(matrix[row], 1) IN
       pivotCol # 0 =>
         /\ matrix[row][pivotCol] = One
         /\ \A otherRow \in 1..Len(matrix) :
              otherRow # row => matrix[otherRow][pivotCol] = Zero

(***************************************************************************)
(* The determinant of a numeric matrix: the cofactor expansion along row 0 *)
(* in which the term of column j carries the sign (-1)^j.                  *)
(***************************************************************************)
RowColRemoved(m, row, col) ==
  LET n == Len(m) IN
  [i \in 1..(n - 1) |-> [j \in 1..(n - 1) |->
     m[IF i < row THEN i ELSE i + 1][IF j < col THEN j ELSE j + 1]]]

RECURSIVE Det(_)
RECURSIVE CofactorSum(_, _)
CofactorSum(m, j) ==
  IF j > Len(m) THEN 0
  ELSE (IF m[1][j] = 0 THEN 0
        ELSE (IF j % 2 = 1 THEN 1 ELSE -1) * m[1][j] * Det(RowColRemoved(m, 1, j)))
       + CofactorSum(m, j + 1)

Det(m) ==
  IF Len(m) = 1 THEN m[1][1]
  ELSE IF Len(m) = 2 THEN m[1][1] * m[2][2] - m[1][2] * m[2][1]
  ELSE CofactorSum(m, 1)

\* the numeric matrix xI - A at the number x
XIMinusAAt(inputMatrix, x) ==
  LET n == Len(inputMatrix) IN
  [i \in 1..n |-> [j \in 1..n |->
     (IF i = j THEN x ELSE 0) - inputMatrix[i][j]]]

(***************************************************************************)
(* Exact arithmetic of realRootsSolver.  A coefficient is a number          *)
(* c[1] + c[2]*e + c[3]*e^2 + ... with e = 10^-7 and small integers c[k],   *)
(* kept as the sequence c without trailing zeros: 1e-6 is 10*e and 1e-14    *)
(* is e^2.  Every |c[k]| stays far below 10^7, so the sign of such a number *)
(* is the sign of its first non-zero c[k].  A computed value is             *)
(* (p + r * sqrt(d)) / q with p, r, d and q such numbers.                   *)
(***************************************************************************)
RECURSIVE EpsTrim(_)
EpsTrim(c) ==
  IF Len(c) = 0 THEN <<>>
  ELSE IF c[Len(c)] = 0 THEN EpsTrim(SubSeq(c, 1, Len(c) - 1))
  ELSE c

EpsInt(n) == IF n = 0 THEN <<>> ELSE <<n>>

EpsAt(c, k) == IF k <= Len(c) THEN c[k] ELSE 0

EpsAdd(a, b) == EpsTrim([k \in 1..Max(Len(a), Len(b)) |-> EpsAt(a, k) + EpsAt(b, k)])

EpsNeg(a) == [k \in 1..Len(a) |-> -a[k]]

EpsSub(a, b) == EpsAdd(a, EpsNeg(b))

\* the coefficient of e^(k-1) in a * b, summed from the index i of a on
RECURSIVE EpsMulAt(_, _, _, _)
EpsMulAt(a, b, k, i) ==
  IF i > Len(a) \/ i > k THEN 0
  ELSE EpsAt(a, i) * EpsAt(b, k + 1 - i) + EpsMulAt(a, b, k, i + 1)

EpsMul(a, b) ==
  IF Len(a) = 0 \/ Len(b) = 0 THEN <<>>
  ELSE EpsTrim([k \in 1..(Len(a) + Len(b) - 1) |-> EpsMulAt(a, b, k, 1)])

\* -1, 0 or 1
RECURSIVE EpsSignFrom(_, _)
EpsSignFrom(c, k) ==
  IF k > Len(c) THEN 0
  ELSE IF c[k] > 0 THEN 1
  ELSE IF c[k] < 0 THEN -1
  ELSE EpsSignFrom(c, k + 1)

EpsSign(c) == EpsSignFrom(c, 1)

Real(p, r, d, q) == [p |-> p, r |-> r, d |-> d, q |-> q]

RealOf(c) == Real(c, <<>>, <<>>, <<1>>)

RealInt(n) == RealOf(EpsInt(n))

RealNeg(x) == Real(EpsNeg(x.p), EpsNeg(x.r), x.d, x.q)

\* x + y, for x and y without a square root or with the same one
RealAdd(x, y) ==
  Real(EpsAdd(EpsMul(x.p, y.q), EpsMul(y.p, x.q)),
       EpsAdd(EpsMul(x.r, y.q), EpsMul(y.r, x.q)),
       IF Len(x.r) # 0 THEN x.d ELSE y.d,
       EpsMul(x.q, y.q))

RealSub(x, y) == RealAdd(x, RealNeg(y))

\* x / c
RealDiv(x, c) == Real(x.p, x.r, x.d, EpsMul(x.q, c))

\* Math.sqrt(c), for c >= 0
RealSqrt(c) == Real(<<>>, <<1>>, c, <<1>>)

\* the sign of p + r * sqrt(d)
SurdSign(p, r, d) ==
  LET sp == EpsSign(p)
      sr == IF EpsSign(d) = 0 THEN 0 ELSE EpsSign(r)
  IN IF sr = 0 THEN sp
     ELSE IF sp = 0 \/ sp = sr THEN sr
     ELSE sp * EpsSign(EpsSub(EpsMul(p, p), EpsMul(EpsMul(r, r), d)))

RealSign(x) == SurdSign(x.p, x.r, x.d) * EpsSign(x.q)

\* Math.abs
RealAbs(x) == IF RealSign(x) < 0 THEN RealNeg(x) ELSE x

RealLess(x, y) == RealSign(RealSub(x, y)) < 0

\* a division by zero gives Infinity or NaN
IsFinite(x) == EpsSign(x.q) # 0

(***************************************************************************)
(* realRootsSolver: validateEigenvalues and solveRealRoots.                *)
(***************************************************************************)
\* 1e-6
EPSILON == RealOf(<<0, 10>>)

\* 1e-14
DedupTolerance == RealOf(<<0, 0, 1>>)

\* the values handed to Math.round lie in -MaxMagnitude .. MaxMagnitude
MaxMagnitude == 8

\* the integers Math.round chooses from
RoundCandidates == (-MaxMagnitude)..MaxMagnitude

Half == Real(<<1>>, <<>>, <<>>, <<2>>)

\* Math.round(ev): the integer n with n - 1/2 <= ev < n + 1/2
mathRound(ev) ==
  CHOOSE n \in RoundCandidates :
    /\ ~RealLess(ev, RealSub(RealInt(n), Half))
    /\ RealLess(ev, RealAdd(RealInt(n), Half))

\* step 1 of validateEigenvalues, for one value
snap(ev) ==
  LET rounded == RealInt(mathRound(ev)) IN
  IF RealLess(RealAbs(RealSub(ev, rounded)), EPSILON) THEN rounded
  ELSE IF RealLess(RealAbs(ev), EPSILON) THEN RealInt(0)
  ELSE ev

\* step 2 of validateEigenvalues: the reduce over snapped, from acc
RECURSIVE removeDuplicates(_, _)
removeDuplicates(snapped, acc) ==
  IF Len(snapped) = 0 THEN acc
  ELSE
    LET current == Head(snapped)
        isDuplicate == \E k \in 1..Len(acc) :
                         RealLess(RealAbs(RealSub(acc[k], current)), EPSILON)
    IN removeDuplicates(Tail(snapped),
                        IF isDuplicate THEN acc ELSE Append(acc, current))

validateEigenvalues(eigenvalues) ==
  removeDuplicates([k \in 1..Len(eigenvalues) |-> snap(eigenvalues[k])], <<>>)

\* the roots as pushed
unsorted(roots) == roots

RECURSIVE insertAscending(_, _)
insertAscending(sorted, v) ==
  IF Len(sorted) = 0 THEN <<v>>
  ELSE IF RealLess(v, Head(sorted)) THEN <<v>> \o sorted
  ELSE <<Head(sorted)>> \o insertAscending(Tail(sorted), v)

\* roots.sort((a, b) => a - b)
RECURSIVE sortAscending(_)
sortAscending(roots) ==
  IF Len(roots) = 0 THEN <<>>
  ELSE insertAscending(sortAscending(SubSeq(roots, 1, Len(roots) - 1)), roots[Len(roots)])

\* while (coeffs.length > 0 && coeffs[0] === 0) coeffs.shift()
RECURSIVE cleanCoefficients(_)
cleanCoefficients(coeffs) ==
  IF Len(coeffs) > 0 /\ EpsSign(coeffs[1]) = 0 THEN cleanCoefficients(Tail(coeffs))
  ELSE coeffs

\* linear: ax + b = 0
solveLinear(coeffs) ==
  LET root == IF EpsSign(coeffs[2]) = 0 THEN RealInt(0)
              ELSE RealDiv(RealNeg(RealOf(coeffs[2])), coeffs[1])
  IN IF IsFinite(root) THEN <<root>> ELSE <<>>

\* quadratic: ax^2 + bx + c = 0
solveQuadratic(coeffs) ==
  LET a == coeffs[1]
      b == coeffs[2]
      c == coeffs[3]
      discriminant == EpsSub(EpsMul(b, b), EpsMul(EpsMul(<<4>>, a), c))
  IN IF EpsSign(discriminant) >= 0
     THEN LET sqrtDisc == RealSqrt(discriminant)
              root1 == RealDiv(RealAdd(RealNeg(RealOf(b)), sqrtDisc), EpsMul(<<2>>, a))
              root2 == RealDiv(RealSub(RealNeg(RealOf(b)), sqrtDisc), EpsMul(<<2>>, a))
              first == IF IsFinite(root1) THEN <<root1>> ELSE <<>>
              second == IF /\ IsFinite(root2)
                           /\ RealLess(DedupTolerance, RealAbs(RealSub(root1, root2)))
                        THEN <<root2>> ELSE <<>>
          IN sortAscending(first \o second)
     ELSE <<>>

\* solveRealRoots; innerRoots is what solveCubicOptimized (degree 3) or
\* optimizedNewtonRaphson (degree 4 and more) returns for the coefficients
solveRealRoots(inputCoeffs, innerRoots) ==
  LET coeffs == cleanCoefficients(inputCoeffs) IN
  IF Len(coeffs) = 0 THEN <<>>
  ELSE IF Len(coeffs) = 1 THEN <<>>
  ELSE IF Len(coeffs) = 2 THEN solveLinear(coeffs)
  ELSE IF Len(coeffs) = 3 THEN solveQuadratic(coeffs)
  ELSE validateEigenvalues(innerRoots)

(***************************************************************************)
(* realRootsSolver: optimizedNewtonRaphson.  Coefficients, starting points *)
(* and candidate roots are integers, so a value is below 1e-8, 1e-10 or    *)
(* 1e-14 in absolute value exactly when it is 0.  robustNewtonIteration is *)
(* a floating-point iteration on the deflated polynomial: what it returns  *)
(* is either null or some number, not necessarily a root of the original   *)
(* polynomial.                                                             *)
(***************************************************************************)
\* the starting points are the integers -MaxStart .. MaxStart
MaxStart == 1

\* the candidate roots lie in -MaxRoot .. MaxRoot
MaxRoot == 2

\* f.evaluate({ x: x }) for the polynomial of the coefficients, from the
\* coefficient i on, value being that of the coefficients before it
RECURSIVE evaluateFrom(_, _, _, _)
evaluateFrom(coeffs, x, i, value) ==
  IF i > Len(coeffs) THEN value
  ELSE evaluateFrom(coeffs, x, i + 1, value * x + coeffs[i])

evaluatePolynomial(coeffs, x) == evaluateFrom(coeffs, x, 1, 0)

\* no verification
verifiedAlways(coeffs, root) == TRUE

\* Math.abs(verification) < 1e-10, verification being f.evaluate({ x: root })
isVerified(coeffs, root) == evaluatePolynomial(coeffs, root) = 0

\* the coefficient itself, nothing carried from the step before
syntheticNoCarry(coeffs, root, i) == coeffs[i + 1]

\* remainder after the step i of the synthetic division
RECURSIVE syntheticRemainder(_, _, _)
syntheticRemainder(coeffs, root, i) ==
  IF i = 0 THEN coeffs[1]
  ELSE coeffs[i + 1] + syntheticRemainder(coeffs, root, i - 1) * root

\* Math.abs(c) < 1e-14 ? 0 : c
cleanTiny(c) == IF Abs(c) < 1 THEN 0 ELSE c

\* deflatePolynomial: newCoeffs
deflatePolynomial(coeffs, root) ==
  [k \in 1..(Len(coeffs) - 1) |-> cleanTiny(syntheticRemainder(coeffs, root, k - 1))]

\* the grid of generateSmartStartingPointsOptimized, in ascending order
generateSmartStartingPointsOptimized ==
  [i \in 1..(2 * MaxStart + 1) |-> i - MaxStart - 1]

Null == [found |-> FALSE, x |-> 0]

Found(x) == [found |-> TRUE, x |-> x]

\* what robustNewtonIteration can return: null for a start too close to an
\* existing root, and else null or a number
robustNewtonIteration(start, existingRoots) ==
  IF \E k \in 1..Len(existingRoots) : Abs(start - existingRoots[k]) < 1
  THEN {Null}
  ELSE {Null} \cup {Found(x) : x \in (-MaxRoot)..MaxRoot}

RECURSIVE insertNumber(_, _)
insertNumber(sorted, v) ==
  IF Len(sorted) = 0 THEN <<v>>
  ELSE IF v < Head(sorted) THEN <<v>> \o sorted
  ELSE <<Head(sorted)>> \o insertNumber(Tail(sorted), v)

\* roots.sort((a, b) => a - b) on the roots of optimizedNewtonRaphson
RECURSIVE sortNumbers(_)
sortNumbers(roots) ==
  IF Len(roots) = 0 THEN <<>>
  ELSE insertNumber(sortNumbers(SubSeq(roots, 1, Len(roots) - 1)), roots[Len(roots)])

(***************************************************************************)
(* solveCharacteristicPolynomial: which solvers it calls for a matrix of   *)
(* order n, and what it returns.  solveRealRoots, the diagonalization and  *)
(* math.eigs return what they return: a list of roots, or an exception for *)
(* the two that are called in a try block.  calls is the list of the calls *)
(* made, in order, each with what it gave.                                 *)
(***************************************************************************)
Returned(rootList) == [threw |-> FALSE, roots |-> rootList]

Threw == [threw |-> TRUE, roots |-> <<>>]

Call(solver, result) == [solver |-> solver, result |-> result]

\* the tiers for n >= 4: the diagonalization, then math.eigs when there is
\* still no root
diagonalizationTiers(diagonalizationRoots, mathjsRoots) ==
  LET roots == IF ~diagonalizationRoots.threw /\ Len(diagonalizationRoots.roots) > 0
               THEN diagonalizationRoots.roots ELSE <<>>
      first == <<Call("findEigenvaluesByDiagonalization", diagonalizationRoots)>>
  IN IF Len(roots) = 0
     THEN [threw |-> FALSE,
           calls |-> first \o <<Call("math.eigs", mathjsRoots)>>,
           roots |-> IF mathjsRoots.threw THEN <<>> ELSE mathjsRoots.roots]
     ELSE [threw |-> FALSE, calls |-> first, roots |-> roots]

solveCharacteristicPolynomial(n, polynomialRoots, diagonalizationRoots, mathjsRoots) ==
  IF n < 1 \/ n > MaxOrder
  THEN [threw |-> TRUE, calls |-> <<>>, roots |-> <<>>]
  ELSE IF n <= 3
  THEN [threw |-> FALSE, calls |-> <<Call("solveRealRoots", Returned(polynomialRoots))>>,
        roots |-> polynomialRoots]
  ELSE diagonalizationTiers(diagonalizationRoots, mathjsRoots)

(***************************************************************************)
(* eigenStuffFinder: findEigenvalues on integer matrices of order 1 to 3,  *)
(* the orders realRootsSolver solves in closed form.  The characteristic   *)
(* polynomial is monic with integer coefficients, so its rational roots    *)
(* are integers; the model covers the matrices whose real eigenvalues are  *)
(* integers, on which the roots the closed forms return are exact after    *)
(* the snap of validateEigenvalues, and an eigenvalue is an integer.       *)
(***************************************************************************)
ClosedFormOrder == 3

\* math.rationalize(math.simplify(cleaned), {}, true).coefficients for an
\* expression in x of degree n <= 3: the coefficients, by increasing exponent,
\* of the polynomial the string denotes, here read off its values at 0..3
rationalize(cleaned, n) ==
  LET f0 == evaluate(cleaned, 0).v
      f1 == evaluate(cleaned, 1).v
      f2 == evaluate(cleaned, 2).v
      f3 == evaluate(cleaned, 3).v
      b2 == f2 - 2 * f1 + f0
      b3 == f3 - 3 * f2 + 3 * f1 - f0
      c3 == b3 \div 6
      c2 == (b2 - b3) \div 2
      c1 == f1 - f0 - c2 - c3
  IN SubSeq(<<f0, c1, c2, c3>>, 1, n + 1)

RatSign(a) == IF a.num > 0 THEN 1 ELSE IF a.num < 0 THEN -1 ELSE 0

RealOfRat(a) == Real(EpsInt(a.num), <<>>, <<>>, EpsInt(a.den))

\* a * x^3 + b * x^2 + c * x + d
cubicValue(coeffs, x) ==
  ((coeffs[1] * x + coeffs[2]) * x + coeffs[3]) * x + coeffs[4]

\* no real root of a cubic lies outside this range (Cauchy)
cubicRootBound(coeffs) ==
  1 + Max(Abs(coeffs[2]), Max(Abs(coeffs[3]), Abs(coeffs[4])))

\* the integer roots of the cubic from lo on, in ascending order
RECURSIVE integerRootsFrom(_, _, _)
integerRootsFrom(coeffs, lo, hi) ==
  IF lo > hi THEN <<>>
  ELSE IF cubicValue(coeffs, lo) = 0
       THEN <<RealInt(lo)>> \o integerRootsFrom(coeffs, lo + 1, hi)
       ELSE integerRootsFrom(coeffs, lo + 1, hi)

\* the real roots Cardano's formula (discriminant > 0: one) and the
\* trigonometric formula (discriminant < 0: three) compute, for a cubic whose
\* real roots are integers
realRootsOfCubic(coeffs) ==
  integerRootsFrom(coeffs, -cubicRootBound(coeffs), cubicRootBound(coeffs))

\* the branch solveCubicOptimized takes on a double root that ignores root2
doubleRootOnly(root1, root2) == <<root1>>

\* roots of the branch discriminant === 0 with q # 0, before the sort
doubleRootBranch(root1, root2) ==
  IF root1 # root2 THEN <<root1, root2>> ELSE <<root1>>

\* solveCubicOptimized on integer coefficients [a, b, c, d], a # 0
solveCubicOptimized(coeffs) ==
  LET a == coeffs[1]
      b == coeffs[2]
      c == coeffs[3]
      d == coeffs[4]
      p == Rat(3 * a * c - b * b, 3 * a * a)
      q == Rat(2 * b * b * b - 9 * a * b * c + 27 * a * a * d, 27 * a * a * a)
      discriminant == RatAdd(RatMul(RatMul(q, q), Rat(1, 4)),
                             RatMul(RatMul(RatMul(p, p), p), Rat(1, 27)))
      shift == Rat(-b, 3 * a)
  IN IF RatSign(discriminant) > 0 THEN realRootsOfCubic(coeffs)
     ELSE IF RatSign(discriminant) = 0
     THEN IF q = Zero THEN <<RealOfRat(shift)>>
          ELSE LET root1 == RatAdd(RatMul(RatInt(3), RatMul(q, RatInv(p))), shift)
                   root2 == RatAdd(RatMul(Rat(-3, 2), RatMul(q, RatInv(p))), shift)
                   found == doubleRootBranch(root1, root2)
               IN sortAscending([k \in 1..Len(found) |-> RealOfRat(found[k])])
     ELSE realRootsOfCubic(coeffs)

\* solveCharacteristicPolynomial(determinantExpr, inputMatrix).eigenvalues:
\* solveRealRoots(coeff.reverse(), ...) on the coefficients of rationalize
characteristicRoots(coefficients) ==
  LET coeff == Reverse(coefficients)
      inner == IF Len(coeff) = 4 THEN solveCubicOptimized(coeff) ELSE <<>>
  IN solveRealRoots([k \in 1..Len(coeff) |-> EpsInt(coeff[k])], inner)

\* the integer a root is, for the roots that are integers
integerOf(root) ==
  CHOOSE k \in -(MaxOrder * 8)..(MaxOrder * 8) : RealSign(RealSub(root, RealInt(k))) = 0

\* calculateTraceManual
RECURSIVE calculateTraceFrom(_, _)
calculateTraceFrom(matrix, i) ==
  IF i > Len(matrix) THEN 0 ELSE matrix[i][i] + calculateTraceFrom(matrix, i + 1)

calculateTraceManual(matrix) == calculateTraceFrom(matrix, 1)

\* robustNullSpaceBasis: findNullSpace with the tolerance 1e-12 for 1e-10,
\* which no fraction of the model lies between
robustNullSpaceBasis(matrix) == findNullSpace(matrix)

\* the copy of xIMinusA with the eigenvalue put for x in every string cell
substituteEigenvalue(xIMinusA, eigenvalue) ==
  [i \in 1..Len(xIMinusA) |-> [j \in 1..Len(xIMinusA[i]) |->
     IF xIMinusA[i][j].k = "str"
     THEN RatInt(evaluate(xIMinusA[i][j].s, eigenvalue).v)
     ELSE RatInt(xIMinusA[i][j].n)]]

\* findEigenvectorBasis.  Every vector robustNullSpaceBasis returns has a
\* component 1, so validBasis is never empty and findEigenvectorsFallback is
\* never called.
findEigenvectorBasis(xIMinusA, eigenvalue) ==
  LET xIMinusACopy == substituteEigenvalue(xIMinusA, eigenvalue)
      nullSpace == robustNullSpaceBasis(xIMinusACopy)
  IN [eigenvalue |-> eigenvalue, basis |-> nullSpace]

\* const xIMinusACopy = xIMinusA: the name bound to the caller's own array
sameArray(arrays) == [ref |-> "caller", arrays |-> arrays]

\* JSON.parse(JSON.stringify(xIMinusA)): the name xIMinusACopy is bound to a
\* new array holding the caller's cells
parseStringify(arrays) ==
  [ref |-> "copy", arrays |-> [arrays EXCEPT !.copy = arrays.caller]]

\* the loops of findEigenvectorBasis writing xIMinusACopy[i][j] = x into the
\* array the name refers to
substituteInto(arrays, ref, eigenvalue) ==
  [arrays EXCEPT ![ref] = substituteEigenvalue(arrays[ref], eigenvalue)]

\* the caller's array as the call findEigenvectorBasis(xIMinusA, eigenvalue)
\* leaves it
xIMinusAAfterCall(xIMinusA, eigenvalue) ==
  LET bound == parseStringify([caller |-> xIMinusA, copy |-> <<>>])
  IN substituteInto(bound.arrays, bound.ref, eigenvalue).caller

\* the checks with inputMatrix[i].length < n for inputMatrix[i].length !== n
validateInputShortRows(inputMatrix) ==
  IF Len(inputMatrix) = 0 THEN "Matrix cannot be empty"
  ELSE IF \E i \in 1..Len(inputMatrix) : Len(inputMatrix[i]) < Len(inputMatrix)
       THEN "Matrix must be square (n×n)"
       ELSE ""

\* the input checks of findEigenvalues: the message of the error thrown, or ""
validateInput(inputMatrix) ==
  IF Len(inputMatrix) = 0 THEN "Matrix cannot be empty"
  ELSE IF \E i \in 1..Len(inputMatrix) : Len(inputMatrix[i]) # Len(inputMatrix)
       THEN "Matrix must be square (n×n)"
       ELSE ""

Thrown(message, stages) ==
  [done |-> TRUE, threw |-> TRUE, message |-> message, stages |-> stages,
   eigenvalues |-> <<>>, eigenspaces |-> <<>>, trace |-> 0, isReal |-> FALSE]

\* const mathjsResult = math.eigs(inputMatrix), outside any try
eigsCall(throws, stages) == [threw |-> throws, stages |-> stages]

\* findEigenvalues(inputMatrix), where mathEigsThrows tells whether math.eigs
\* throws on inputMatrix
findEigenvalues(inputMatrix, mathEigsThrows) ==
  IF validateInput(inputMatrix) # "" THEN Thrown(validateInput(inputMatrix), <<>>)
  ELSE
    LET n == Len(inputMatrix)
        stages == <<"createXIMinusAMatrix", "calculateDeterminantExpression",
                    "rationalize", "solveCharacteristicPolynomial", "math.eigs">>
    IN Only({Only({
         IF eigsCall(mathEigsThrows, stages).threw THEN Thrown("math.eigs", stages)
         ELSE
           Only({[done |-> TRUE, threw |-> FALSE, message |-> "",
                  stages |-> stages \o <<"findEigenvectorBasis">>,
                  eigenvalues |-> values,
                  eigenspaces |-> [k \in 1..Len(values) |->
                                     findEigenvectorBasis(symbolic, values[k])],
                  trace |-> calculateTraceManual(inputMatrix),
                  isReal |-> /\ \A k \in 1..Len(polynomialResult) :
                                  IsFinite(polynomialResult[k])
                             /\ Len(polynomialResult) # 0] :
             values \in {[k \in 1..Len(polynomialResult) |->
                            integerOf(polynomialResult[k])]}}) :
         polynomialResult \in
           {characteristicRoots(
              rationalize(cleanExpressionLatex(
                            calculateDeterminantExpression(symbolic)), n))}}) :
         symbolic \in {createXIMinusAMatrix(inputMatrix)}})

(***************************************************************************)
(* qrAlgorithm and qrDecomposition (Gram-Schmidt) in exact arithmetic, on  *)
(* the matrices for which every norm the process takes is rational.        *)
(***************************************************************************)
\* the k of 0..n with k * k = n, or -1
IntSqrt(n) ==
  IF \E k \in 0..n : k * k = n THEN CHOOSE k \in 0..n : k * k = n ELSE -1

\* Math.sqrt of a fraction that is the square of a fraction
ratSqrt(a) == Rat(IntSqrt(a.num), IntSqrt(a.den))

HasRationalSqrt(a) == a.num >= 0 /\ IntSqrt(a.num) >= 0 /\ IntSqrt(a.den) >= 0

RECURSIVE dotProductFrom(_, _, _)
dotProductFrom(a, b, i) ==
  IF i > Len(a) THEN Zero
  ELSE RatAdd(RatMul(a[i], b[i]), dotProductFrom(a, b, i + 1))

\* a.reduce((sum, val, i) => sum + val * b[i], 0)
dotProduct(a, b) == dotProductFrom(a, b, 1)

\* entry i of qj after the projections on the columns k.. of Q are subtracted
RECURSIVE subtractProjections(_, _, _, _, _)
subtractProjections(aj, qs, k, i, value) ==
  IF k > Len(qs) THEN value
  ELSE subtractProjections(aj, qs, k + 1, i,
         RatSub(value, RatMul(dotProduct(aj, qs[k]), qs[k][i])))

\* the Gram-Schmidt loop from column j on: the columns of Q and of R so far,
\* and whether every norm taken was rational
RECURSIVE gramSchmidt(_, _, _, _, _)
gramSchmidt(A, j, qs, rs, exact) ==
  IF j > Len(A[1]) THEN [qs |-> qs, rs |-> rs, exact |-> exact]
  ELSE
    LET m == Len(A)
        n == Len(A[1])
        aj == [i \in 1..m |-> A[i][j]]
        qj == [i \in 1..m |-> subtractProjections(aj, qs, 1, i, aj[i])]
        normSquared == dotProduct(qj, qj)
        norm == IF HasRationalSqrt(normSquared) THEN ratSqrt(normSquared) ELSE Zero
        qcol == IF norm # Zero
                THEN [i \in 1..m |-> RatMul(qj[i], RatInv(norm))]
                ELSE [i \in 1..m |-> Zero]
        rcol == [k \in 1..n |-> IF k < j THEN dotProduct(aj, qs[k])
                                ELSE IF k = j THEN norm ELSE Zero]
    IN gramSchmidt(A, j + 1, Append(qs, qcol), Append(rs, rcol),
                   exact /\ HasRationalSqrt(normSquared))

qrDecomposition(A) ==
  LET gs == gramSchmidt(A, 1, <<>>, <<>>, TRUE) IN
  [Q |-> [i \in 1..Len(A) |-> [j \in 1..Len(A[1]) |-> gs.qs[j][i]]],
   R |-> [i \in 1..Len(A[1]) |-> [j \in 1..Len(A[1]) |-> gs.rs[j][i]]],
   exact |-> gs.exact]

RECURSIVE multiplyEntry(_, _, _, _, _)
multiplyEntry(A, B, i, j, k) ==
  IF k > Len(B) THEN Zero
  ELSE RatAdd(RatMul(A[i][k], B[k][j]), multiplyEntry(A, B, i, j, k + 1))

multiplyMatrices(A, B) ==
  [i \in 1..Len(A) |-> [j \in 1..Len(B[1]) |-> multiplyEntry(A, B, i, j, 1)]]

\* the convergence test of qrAlgorithm: no Math.abs(Ak[i][j]) > tolerance off
\* the diagonal (a non-zero fraction of the model is above 1e-10)
offDiagonalConverged(M) ==
  \A i \in 1..Len(M) : \A j \in 1..Len(M) : i # j => M[i][j] = Zero

\* what qrAlgorithm returns after the loop: the diagonal of Ak, in order
\* (every fraction is finite, so eigenvalues.filter(isFinite) keeps them all)
extractEigenvalues(M) == [i \in 1..Len(M) |-> M[i][i]]

\* one pass of the loop of qrAlgorithm on Ak
qrStep(M) == multiplyMatrices(qrDecomposition(M).R, qrDecomposition(M).Q)

\* every norm of the first k passes from M is rational
RECURSIVE ExactPasses(_, _)
ExactPasses(M, k) ==
  IF k = 0 THEN TRUE
  ELSE qrDecomposition(M).exact /\ ExactPasses(qrStep(M), k - 1)

(***************************************************************************)
(* State.  MatrixInput holds size and matrix; every change of either runs  *)
(* the pipeline on the new matrix, whose first two stages leave xIMinusA   *)
(* and the determinant expression (one per version of determinantFinder).  *)
(***************************************************************************)
VARIABLES size, matrix, xIMinusA, determinantExpression, determinantExpressionN

detVars == <<size, matrix, xIMinusA, determinantExpression, determinantExpressionN>>

\* PolynomialInput: the expression last handed to expandPolynomialManual, and
\* what it returned
VARIABLES equation, expanded

polyVars == <<equation, expanded>>

\* the matrix last handed to rref and findNullSpace, and what they returned
VARIABLES rrefInput, rrefOutput, nullSpaceBasis

rrefVars == <<rrefInput, rrefOutput, nullSpaceBasis>>

\* the coefficients last handed to solveRealRoots, what its inner solver
\* returned for them, and what it returned
VARIABLES inputCoeffs, innerRoots, realRoots

rootsVars == <<inputCoeffs, innerRoots, realRoots>>

\* optimizedNewtonRaphson: coeffs, deflatedCoeffs, roots, rootIndex, the
\* position in startingPoints, and what it returned
VARIABLES newtonCoeffs, deflatedCoeffs, newtonRoots, rootIndex, startIndex, newtonReturn

newtonVars == <<newtonCoeffs, deflatedCoeffs, newtonRoots, rootIndex, startIndex, newtonReturn>>

\* solveCharacteristicPolynomial: the order of inputMatrix, and the calls it
\* made and what it returned
VARIABLES tierOrder, tierOutcome

tierVars == <<tierOrder, tierOutcome>>

\* findEigenvalues: the matrix it was called with, whether the call of
\* math.eigs on it throws, and how the call ended
VARIABLES eigenInput, eigsThrows, eigenResult

eigenVars == <<eigenInput, eigsThrows, eigenResult>>

\* findEigenvectorBasis: the matrix and the eigenvalue it was called with, and
\* what it returned
VARIABLES basisInput, basisResult

basisVars == <<basisInput, basisResult>>

\* qrAlgorithm: A and maxIterations, the locals Ak and iter, and what it
\* returned
VARIABLES qrInput, qrMaxIterations, Ak, iter, qrReturn

qrVars == <<qrInput, qrMaxIterations, Ak, iter, qrReturn>>

\* two calls of optimizedNewtonRaphson on the same polynomial, one after the
\* other: the call in progress, its deflated polynomial, roots, starting
\* points and position in them, what robustNewtonIteration has returned so
\* far for each polynomial and start, and what each call returned
VARIABLES runCoeffs, run, runDeflated, runRoots, runPoints, runStart,
          newtonOutcome, runReturn

runVars == <<runCoeffs, run, runDeflated, runRoots, runPoints, runStart,
             newtonOutcome, runReturn>>

\* App: the matrix MatrixInput last passed to onMatrixChange (the state matrix
\* of App, [] at first), the eigenspaces App holds, and the eigenspaces the
\* useMemo of EigenvalueSolution holds, current once it has run for that matrix
VARIABLES appMatrix, basisVectors, solutionMemo

appVars == <<appMatrix, basisVectors, solutionMemo>>

\* robustNewtonIteration on one starting point: the coefficients of the
\* polynomial, the locals x, stepSize, prevX and iter, the step last tried
\* with |f| before and after it, and whether the loop has ended
VARIABLES seed

seedVars == <<seed>>

seedFrame == <<detVars, polyVars, rrefVars, rootsVars, newtonVars, tierVars,
               eigenVars, basisVars, qrVars, runVars, appVars>>

vars == <<detVars, polyVars, rrefVars, rootsVars, newtonVars, tierVars,
          eigenVars, basisVars, qrVars, runVars, appVars, seedVars>>

\* what the operations on one part of the state leave alone
detFrame == <<polyVars, rrefVars, rootsVars, newtonVars, tierVars,
              eigenVars, basisVars, qrVars, runVars, seedVars>>

polyFrame == <<detVars, rrefVars, rootsVars, newtonVars, tierVars,
               eigenVars, basisVars, qrVars, runVars,
    appVars, seedVars>>

rrefFrame == <<detVars, polyVars, rootsVars, newtonVars, tierVars,
               eigenVars, basisVars, qrVars, runVars,
    appVars, seedVars>>

rootsFrame == <<detVars, polyVars, rrefVars, newtonVars, tierVars,
                eigenVars, basisVars, qrVars, runVars,
    appVars, seedVars>>

newtonFrame == <<detVars, polyVars, rrefVars, rootsVars, tierVars,
                 eigenVars, basisVars, qrVars, runVars,
    appVars, seedVars>>

tierFrame == <<detVars, polyVars, rrefVars, rootsVars, newtonVars,
               eigenVars, basisVars, qrVars, runVars,
    appVars, seedVars>>

eigenFrame == <<detVars, polyVars, rrefVars, rootsVars, newtonVars, tierVars,
                basisVars, qrVars, runVars,
    appVars, seedVars>>

basisFrame == <<detVars, polyVars, rrefVars, rootsVars, newtonVars, tierVars,
                eigenVars, qrVars, runVars,
    appVars, seedVars>>

qrFrame == <<detVars, polyVars, rrefVars, rootsVars, newtonVars, tierVars,
             eigenVars, basisVars, runVars,
    appVars, seedVars>>

runFrame == <<detVars, polyVars, rrefVars, rootsVars, newtonVars, tierVars,
              eigenVars, basisVars, qrVars,
    appVars, seedVars>>

CellValues == (-MaxEntry)..MaxEntry

NonZeroCount(m) ==
  Cardinality({c \in (1..Len(m)) \X (1..Len(m)) : m[c[1]][c[2]] # 0})

\* stages 1 and 2 of findEigenvalues on the matrix m
PipelineDet(m) ==
  /\ xIMinusA' = createXIMinusAMatrix(m)
  /\ determinantExpression' = calculateDeterminantExpression(createXIMinusAMatrix(m))
  /\ determinantExpressionN' = calculateDeterminantExpressionN(createXIMinusAMatrix(m))

\* onMatrixChange?.(newMatrix): handleMatrixChange of App sets its matrix, and
\* EigenvalueSolution has not rendered for it yet
onMatrixChange(newMatrix) ==
  /\ appMatrix' = newMatrix
  /\ solutionMemo' = [solutionMemo EXCEPT !.current = FALSE]
  /\ UNCHANGED basisVectors

\* MatrixInput.updateMatrixSize(newSize), called with parseInt(text) || 1
updateMatrixSize(newSize) ==
  IF 0 > newSize \/ newSize > MaxOrder
  THEN UNCHANGED <<detVars, appVars>>
  ELSE LET newMatrix == [i \in 1..newSize |-> [j \in 1..newSize |->
                           IF i <= Len(matrix) /\ j <= Len(matrix)
                           THEN matrix[i][j] ELSE 0]]
       IN /\ size' = newSize
          /\ matrix' = newMatrix
          /\ onMatrixChange(newMatrix)
          /\ PipelineDet(newMatrix)

\* MatrixInput.updateMatrixValue(row, col, value), rows and columns 0-based
updateMatrixValue(row, col, numValue) ==
  LET newMatrix == [i \in 1..Len(matrix) |-> [j \in 1..Len(matrix[i]) |->
                      IF i = row + 1 /\ j = col + 1 THEN numValue ELSE matrix[i][j]]]
  IN /\ matrix' = newMatrix
     /\ UNCHANGED size
     /\ onMatrixChange(newMatrix)
     /\ PipelineDet(newMatrix)

\* The order is chosen before the cells are filled.
SizeChange ==
  /\ NonZeroCount(matrix) = 0
  /\ \E n \in 1..(MaxOrder + 1) : updateMatrixSize(n)
  /\ UNCHANGED detFrame

\* The cells are filled in row-major order, each with a non-zero value, and at
\* most MaxNonZero of them: every matrix with at most MaxNonZero non-zero cells
\* is reached, each along one path.
FillsNext(row, col) ==
  /\ NonZeroCount(matrix) < MaxNonZero
  /\ \A i \in 1..size : \A j \in 1..size :
       matrix[i][j] # 0 => (i < row + 1 \/ (i = row + 1 /\ j < col + 1))

CellEdit ==
  \E row \in 0..(size - 1) : \E col \in 0..(size - 1) :
    /\ FillsNext(row, col)
    /\ \E v \in CellValues \ {0} : updateMatrixValue(row, col, v)
    /\ UNCHANGED detFrame

DetIdle ==
  /\ size = 3
  /\ matrix = ZeroMatrix(3)
  /\ xIMinusA = createXIMinusAMatrix(ZeroMatrix(3))
  /\ determinantExpression = calculateDeterminantExpression(createXIMinusAMatrix(ZeroMatrix(3)))
  /\ determinantExpressionN = calculateDeterminantExpressionN(createXIMinusAMatrix(ZeroMatrix(3)))

PolyIdle ==
  /\ equation = <<>>
  /\ expanded = expandPolynomialManual(<<>>)

RrefIdle ==
  /\ rrefInput = <<<<Zero>>>>
  /\ rrefOutput = [done |-> FALSE, matrix |-> <<>>, ops |-> <<>>]
  /\ nullSpaceBasis = [done |-> FALSE, vectors |-> <<>>]

RootsIdle ==
  /\ inputCoeffs = <<>>
  /\ innerRoots = <<>>
  /\ realRoots = [done |-> FALSE, roots |-> <<>>]

NewtonIdle ==
  /\ newtonCoeffs = <<>>
  /\ deflatedCoeffs = <<>>
  /\ newtonRoots = <<>>
  /\ rootIndex = 0
  /\ startIndex = 1
  /\ newtonReturn = [done |-> FALSE, roots |-> <<>>]

TierIdle ==
  /\ tierOrder = 3
  /\ tierOutcome = [done |-> FALSE, threw |-> FALSE, calls |-> <<>>, roots |-> <<>>]

NoEigenResult ==
  [done |-> FALSE, threw |-> FALSE, message |-> "", stages |-> <<>>,
   eigenvalues |-> <<>>, eigenspaces |-> <<>>, trace |-> 0, isReal |-> FALSE]

EigenIdle ==
  /\ eigenInput = <<>>
  /\ eigsThrows = FALSE
  /\ eigenResult = NoEigenResult

BasisIdle ==
  /\ basisInput = [matrix |-> <<>>, eigenvalue |-> 0, xIMinusA |-> <<>>]
  /\ basisResult = [done |-> FALSE, eigenvalue |-> 0, basis |-> <<>>]

QrIdle ==
  /\ qrInput = <<>>
  /\ qrMaxIterations = 0
  /\ Ak = <<>>
  /\ iter = 0
  /\ qrReturn = [done |-> FALSE, converged |-> FALSE, eigenvalues |-> <<>>]

NoRun == [done |-> FALSE, roots |-> <<>>]

RunIdle ==
  /\ runCoeffs = <<>>
  /\ run = 0
  /\ runDeflated = <<>>
  /\ runRoots = <<>>
  /\ runPoints = <<>>
  /\ runStart = 0
  /\ newtonOutcome = {}
  /\ runReturn = <<NoRun, NoRun>>

AppIdle ==
  /\ appMatrix = <<>>
  /\ basisVectors = <<>>
  /\ solutionMemo = [current |-> FALSE, eigenspaces |-> <<>>]

NoStep == [kind |-> "none", fx |-> Zero, newFx |-> Zero]

SeedIdle ==
  seed = [coeffs |-> <<>>, x |-> Zero, stepSize |-> One, prevX |-> Zero,
          iter |-> 0, last |-> NoStep, ended |-> FALSE]

\* the state after construction: the 3x3 zero matrix and its pipeline results
InitDet ==
  /\ EigenIdle
  /\ BasisIdle
  /\ QrIdle
  /\ RunIdle
  /\ AppIdle
  /\ SeedIdle
  /\ DetIdle
  /\ PolyIdle
  /\ RrefIdle
  /\ RootsIdle
  /\ NewtonIdle
  /\ TierIdle

NextDet == SizeChange \/ CellEdit

SpecDet == InitDet /\ [][NextDet]_vars

(***************************************************************************)
(* The points at which two polynomials of degree at most MaxOrder are      *)
(* compared: MaxOrder + 1 of them.                                         *)
(***************************************************************************)
EvalPoints == (-2)..3

NonTriangular == ~isTriangularMatrix(xIMinusA)

DetAt(x) == Det(XIMinusAAt(matrix, x))

\* C1: for a non-triangular matrix of order 2 to 5, the expression made by
\* assembleNbyNDeterminantExpression from xI - A has, at every x, the value of
\* the cofactor-expansion determinant det(xI - A).
C1_AssembleEqualsDeterminant ==
  (size >= 2 /\ NonTriangular) =>
    LET str == stripSpaces(cleanExpressionLatex(determinantExpressionN)) IN
    \A x \in EvalPoints :
      LET r == evaluateStripped(str, x) IN r.i # 0 /\ r.v = DetAt(x)

\* a matrix of order 5, not triangular, whose row 0 has a non-zero entry in
\* an odd column, and whose expression has the value of the determinant
C1_Witness ==
  /\ size = 5
  /\ NonTriangular
  /\ matrix[1][2] # 0
  /\ matrix[2][1] # 0
  /\ LET r == evaluate(cleanExpressionLatex(determinantExpressionN), 2)
     IN r.i # 0 /\ r.v = DetAt(2) /\ r.v # 32

\* C2: for a matrix of order 3 to 5 the expression made by
\* calculate3x3Determinant / calculateLargerDeterminant, which skip the zero
\* elements of the expansion row, has the value of the full cofactor expansion
\* along row 0 whose term of column j carries the sign (-1)^j.
C2_ZeroSkipKeepsValue ==
  (size >= 3 /\ NonTriangular) =>
    LET str == stripSpaces(cleanExpressionLatex(determinantExpression)) IN
    \A x \in EvalPoints :
      LET r == evaluateStripped(str, x) IN r.i # 0 /\ r.v = DetAt(x)

(***************************************************************************)
(* The polynomial ring, for reference: a polynomial is the sequence of its *)
(* coefficients in ascending order without a zero at its end (the zero     *)
(* polynomial is the empty sequence).  RefExpression parses a string with  *)
(* ^ above * above + and -, ^ right-associative, the others                *)
(* left-associative, and a unary minus as the product by -1.               *)
(***************************************************************************)
RECURSIVE Trim(_)
Trim(p) ==
  IF p # <<>> /\ p[Len(p)] = 0 THEN Trim(SubSeq(p, 1, Len(p) - 1)) ELSE p

RingAdd(p, q) ==
  Trim([k \in 1..Max(Len(p), Len(q)) |-> CoeffOr0(p, k) + CoeffOr0(q, k)])

RECURSIVE ConvolutionSum(_, _, _, _)
ConvolutionSum(p, q, k, i) ==
  IF i > Len(p) THEN 0
  ELSE (IF k - i >= 0 THEN p[i] * CoeffOr0(q, k - i + 1) ELSE 0)
       + ConvolutionSum(p, q, k, i + 1)

RingMul(p, q) ==
  IF p = <<>> \/ q = <<>> THEN <<>>
  ELSE Trim([k \in 1..(Len(p) + Len(q) - 1) |-> ConvolutionSum(p, q, k, 1)])

RECURSIVE RingPow(_, _)
RingPow(p, n) == IF n = 0 THEN <<1>> ELSE RingMul(p, RingPow(p, n - 1))

\* the descending coefficient list of a polynomial
Descending(p) == IF p = <<>> THEN <<0>> ELSE Reverse(p)

Parsed(p, n, i) == [p |-> p, n |-> n, i |-> i]

NotParsed == Parsed(<<>>, 0, 0)

RECURSIVE RefExpression(_, _)
RECURSIVE RefExpressionRest(_, _)
RECURSIVE RefTerm(_, _)
RECURSIVE RefTermRest(_, _)
RECURSIVE RefSigned(_, _)
RECURSIVE RefPower(_, _)
RECURSIVE RefExponent(_, _)
RECURSIVE RefAtom(_, _)

RefExpression(str, i) == RefExpressionRest(str, RefTerm(str, i))

RefExpressionRest(str, left) ==
  IF left.i = 0 THEN NotParsed
  ELSE IF Tok(str, left.i) \in {"+", "-"}
  THEN LET right == RefTerm(str, left.i + 1) IN
       IF right.i = 0 THEN NotParsed
       ELSE RefExpressionRest(str,
              Parsed(IF Tok(str, left.i) = "+" THEN RingAdd(left.p, right.p)
                     ELSE RingAdd(left.p, RingMul(<<-1>>, right.p)),
                     0, right.i))
  ELSE left

RefTerm(str, i) == RefTermRest(str, RefSigned(str, i))

RefTermRest(str, left) ==
  IF left.i = 0 THEN NotParsed
  ELSE IF Tok(str, left.i) = "*"
  THEN LET right == RefSigned(str, left.i + 1) IN
       IF right.i = 0 THEN NotParsed
       ELSE RefTermRest(str, Parsed(RingMul(left.p, right.p), 0, right.i))
  ELSE left

RefSigned(str, i) ==
  IF Tok(str, i) = "-"
  THEN LET arg == RefSigned(str, i + 1) IN
       IF arg.i = 0 THEN NotParsed ELSE Parsed(RingMul(<<-1>>, arg.p), 0, arg.i)
  ELSE RefPower(str, i)

RefPower(str, i) ==
  LET base == RefAtom(str, i) IN
  IF base.i = 0 THEN NotParsed
  ELSE IF Tok(str, base.i) = "^"
  THEN LET exponent == RefExponent(str, base.i + 1) IN
       IF exponent.i = 0 THEN NotParsed
       ELSE Parsed(RingPow(base.p, exponent.n), 0, exponent.i)
  ELSE base

\* an exponent is a non-negative integer constant, or a tower of them
RefExponent(str, i) ==
  IF Tok(str, i) # "num" THEN NotParsed
  ELSE IF Tok(str, i + 1) = "^"
  THEN LET exponent == RefExponent(str, i + 2) IN
       IF exponent.i = 0 THEN NotParsed
       ELSE Parsed(<<>>, IntPow(str[i].v, exponent.n), exponent.i)
  ELSE Parsed(<<>>, str[i].v, i + 1)

RefAtom(str, i) ==
  IF Tok(str, i) = "num" THEN Parsed(Trim(<<str[i].v>>), 0, i + 1)
  ELSE IF Tok(str, i) = "x" THEN Parsed(<<0, 1>>, 0, i + 1)
  ELSE IF Tok(str, i) = "("
  THEN LET inner == RefExpression(str, i + 1) IN
       IF inner.i # 0 /\ Tok(str, inner.i) = ")" THEN Parsed(inner.p, 0, inner.i + 1)
       ELSE NotParsed
  ELSE NotParsed

RefParse(str) == RefExpression(stripSpaces(str), 1)

WellFormed(str) == RefParse(str).i = Len(stripSpaces(str)) + 1

(***************************************************************************)
(* Expressions handed to expandPolynomialManual: every prefix of a         *)
(* well-formed expression of at most MaxLen lexemes, typed lexeme by       *)
(* lexeme, and the strings (x - a)^n.                                      *)
(***************************************************************************)
\* the longest expression typed
MaxLen == 7

\* the deepest nesting of parentheses typed
MaxDepth == 1

\* a of (x - a)^n lies in -MaxA .. MaxA
MaxA == 2

\* n of (x - a)^n lies in 0 .. MaxPower
MaxPower == 5

Literals == 0..2

ExponentLiterals == 0..3

Alphabet ==
  {Ch(c) : c \in {"x", "+", "-", "*", "^", "(", ")"}}
    \cup {Num(n) : n \in Literals \cup ExponentLiterals}

IsOpen(l) == l.c = "("

IsClose(l) == l.c = ")"

Depth(str) == Len(SelectSeq(str, IsOpen)) - Len(SelectSeq(str, IsClose))

\* l may follow str in a well-formed expression; a tower of exponents has two
\* levels at most, the upper one in Literals
CanFollow(str, l) ==
  LET n == Len(str)
      last == Tok(str, n)
      endsOperand == last \in {"num", "x", ")"}
      unaryLast == last = "-" /\ Tok(str, n - 1) \notin {"num", "x", ")"}
  IN
  IF last = "^"
  THEN l.c = "num"
       /\ l.v \in (IF Tok(str, n - 2) = "^" THEN Literals ELSE ExponentLiterals)
  ELSE IF endsOperand
  THEN \/ l.c \in {"+", "-", "*"}
       \/ l.c = ")" /\ Depth(str) > 0
       \/ l.c = "^" /\ ~(Tok(str, n - 1) = "^" /\ Tok(str, n - 3) = "^")
  ELSE \/ l.c = "x"
       \/ l.c = "num" /\ l.v \in Literals
       \/ l.c = "(" /\ Depth(str) < MaxDepth
       \/ l.c = "-" /\ ~unaryLast

\* `(x - ${a})^${n}`
BinomialString(a, n) ==
  <<Ch("("), Ch("x"), Ch(" "), Ch("-"), Ch(" ")>> \o NumStr(a)
    \o <<Ch(")"), Ch("^"), Num(n)>>

TypeLexeme ==
  /\ Len(equation) < MaxLen
  /\ \E l \in Alphabet :
       /\ CanFollow(equation, l)
       /\ equation' = Append(equation, l)
       /\ expanded' = expandPolynomialManual(Append(equation, l))
  /\ UNCHANGED polyFrame

TypeBinomial ==
  /\ equation = <<>>
  /\ \E a \in (-MaxA)..MaxA : \E n \in 0..MaxPower :
       /\ equation' = BinomialString(a, n)
       /\ expanded' = expandPolynomialManual(BinomialString(a, n))
  /\ UNCHANGED polyFrame

NextPoly == TypeLexeme \/ TypeBinomial

SpecPoly == InitDet /\ [][NextPoly]_vars

RECURSIVE Binomial(_, _)
Binomial(n, k) ==
  IF k = 0 \/ k = n THEN 1 ELSE Binomial(n - 1, k - 1) + Binomial(n - 1, k)

\* the descending coefficients of (x - a)^n by the binomial theorem
BinomialCoefficients(a, n) ==
  [k \in 1..(n + 1) |-> Binomial(n, k - 1) * IntPow(-a, k - 1)]

SquareOfXMinus1 == <<Ch("("), Ch("x"), Ch("-"), Num(1), Ch(")"), Ch("^"), Num(2)>>

\* C3: for a well-formed expression over integer constants, x, + - * ^ and
\* parentheses, expandPolynomialManual returns without error the descending
\* coefficient list of the expression's value in the polynomial ring;
\* "(x-1)^2" gives [1, -2, 1] and "(x - a)^n" gives the binomial expansion.
C3_ExpandIsRingValue ==
  /\ WellFormed(equation) =>
       /\ ~expanded.error
       /\ expanded.coefficients = Descending(RefParse(equation).p)
  /\ equation = SquareOfXMinus1 => expanded.coefficients = <<1, -2, 1>>
  /\ \A a \in (-MaxA)..MaxA : \A n \in 0..MaxPower :
       equation = BinomialString(a, n) =>
         expanded.coefficients = BinomialCoefficients(a, n)

\* "(x-1)^2" has been typed and expanded to x^2 - 2x + 1
C3_Witness ==
  /\ equation = SquareOfXMinus1
  /\ WellFormed(equation)
  /\ expanded = [error |-> FALSE, coefficients |-> <<1, -2, 1>>]

(***************************************************************************)
(* Matrices handed to rref and findNullSpace: every matrix of at most      *)
(* MaxDim rows and columns with integer entries in -MaxCoef .. MaxCoef,    *)
(* and every matrix rref returned, handed to it again.                     *)
(***************************************************************************)
\* the largest number of rows and of columns
MaxDim == 3

\* the entries lie in -MaxCoef .. MaxCoef
MaxCoef == 1

\* the matrices of r rows and c columns
RrefMatrices(r, c) == [1..r -> [1..c -> {RatInt(a) : a \in (-MaxCoef)..MaxCoef}]]

\* rref is applied to the matrix
RowReduce ==
  /\ ~rrefOutput.done
  /\ ~nullSpaceBasis.done
  /\ LET reduced == rref(rrefInput) IN
     rrefOutput' = [done |-> TRUE, matrix |-> reduced.matrix, ops |-> reduced.ops]
  /\ UNCHANGED <<rrefInput, nullSpaceBasis>>
  /\ UNCHANGED rrefFrame

\* findNullSpace is applied to the matrix
FindNullSpace ==
  /\ ~rrefOutput.done
  /\ ~nullSpaceBasis.done
  /\ nullSpaceBasis' = [done |-> TRUE, vectors |-> findNullSpace(rrefInput)]
  /\ UNCHANGED <<rrefInput, rrefOutput>>
  /\ UNCHANGED rrefFrame

\* rref is applied to the matrix it returned
RowReduceAgain ==
  /\ rrefOutput.done
  /\ rrefOutput.matrix # rrefInput
  /\ LET reduced == rref(rrefOutput.matrix) IN
     /\ rrefInput' = rrefOutput.matrix
     /\ rrefOutput' = [done |-> TRUE, matrix |-> reduced.matrix, ops |-> reduced.ops]
  /\ UNCHANGED nullSpaceBasis
  /\ UNCHANGED rrefFrame

InitRref ==
  /\ EigenIdle
  /\ BasisIdle
  /\ QrIdle
  /\ RunIdle
  /\ AppIdle
  /\ SeedIdle
  /\ DetIdle
  /\ PolyIdle
  /\ RootsIdle
  /\ NewtonIdle
  /\ TierIdle
  /\ \E r \in 1..MaxDim : \E c \in 1..MaxDim : rrefInput \in RrefMatrices(r, c)
  /\ rrefOutput = [done |-> FALSE, matrix |-> <<>>, ops |-> <<>>]
  /\ nullSpaceBasis = [done |-> FALSE, vectors |-> <<>>]

NextRref == RowReduce \/ FindNullSpace \/ RowReduceAgain

SpecRref == InitRref /\ [][NextRref]_vars

(***************************************************************************)
(* Linear algebra, for reference.                                          *)
(***************************************************************************)
RECURSIVE DotFrom(_, _, _)
DotFrom(u, v, j) ==
  IF j > Len(u) THEN Zero ELSE RatAdd(RatMul(u[j], v[j]), DotFrom(u, v, j + 1))

\* M * v = 0
IsNullVector(M, v) == \A i \in 1..Len(M) : DotFrom(M[i], v, 1) = Zero

RECURSIVE SortedSeq(_)
SortedSeq(S) ==
  IF S = {} THEN <<>>
  ELSE LET least == CHOOSE a \in S : \A b \in S : a <= b
       IN <<least>> \o SortedSeq(S \ {least})

RECURSIVE RatDet(_)
RECURSIVE RatCofactorSum(_, _)
RatCofactorSum(m, j) ==
  IF j > Len(m) THEN Zero
  ELSE RatAdd(RatMul(RatMul(RatInt(IF j % 2 = 1 THEN 1 ELSE -1), m[1][j]),
                     RatDet(RowColRemoved(m, 1, j))),
              RatCofactorSum(m, j + 1))

RatDet(m) == IF Len(m) = 1 THEN m[1][1] ELSE RatCofactorSum(m, 1)

\* the rows I and the columns J of M, in increasing order
SubMatrix(M, I, J) ==
  LET rs == SortedSeq(I)
      cs == SortedSeq(J)
  IN [i \in 1..Len(rs) |-> [j \in 1..Len(cs) |-> M[rs[i]][cs[j]]]]

\* the rank: the order of the largest square submatrix of non-zero determinant
Rank(M) ==
  LET orders == {k \in 1..Len(M) :
                   \E I \in SUBSET (1..Len(M)) : \E J \in SUBSET (1..Len(M[1])) :
                     /\ Cardinality(I) = k
                     /\ Cardinality(J) = k
                     /\ RatDet(SubMatrix(M, I, J)) # Zero}
  IN IF orders = {} THEN 0 ELSE CHOOSE k \in orders : \A l \in orders : l <= k

IsSquare(M) == Len(M) = Len(M[1])

IsSingular(M) == IsSquare(M) /\ RatDet(M) = Zero

\* C4: for a singular square matrix M, every vector that findNullSpace(M)
\* returns is a solution of M * v = 0, and their number is the nullity of M,
\* the number of columns minus the rank.
C4_NullSpaceOfSingular ==
  (nullSpaceBasis.done /\ IsSingular(rrefInput)) =>
    /\ \A k \in 1..Len(nullSpaceBasis.vectors) :
         IsNullVector(rrefInput, nullSpaceBasis.vectors[k])
    /\ Len(nullSpaceBasis.vectors) = Len(rrefInput[1]) - Rank(rrefInput)

\* a singular 3x3 matrix of rank 2 whose basis vector has been found, with an
\* entry that is no integer
C4_Witness ==
  /\ nullSpaceBasis.done
  /\ IsSingular(rrefInput)
  /\ Len(rrefInput) = 3
  /\ Rank(rrefInput) = 2
  /\ Len(nullSpaceBasis.vectors) = 1
  /\ \E i \in 1..3 : nullSpaceBasis.vectors[1][i].den # 1
  /\ IsNullVector(rrefInput, nullSpaceBasis.vectors[1])

\* the columns of R in which no row has its first non-zero entry
FreeColumns(R) ==
  {c \in 1..Len(R[1]) : \A row \in 1..Len(R) : firstNonZero(R[row], 1) # c}

\* C5: when rref(M) has a non-pivot column, findNullSpace(M) returns one
\* vector per non-pivot column, in increasing order of the column; the vector
\* of the free column f has 1 at f, 0 at every other free column and, at the
\* pivot column of each row, the negative of that row's entry in column f.
C5_OneVectorPerFreeColumn ==
  (nullSpaceBasis.done /\ FreeColumns(rref(rrefInput).matrix) # {}) =>
    LET R == rref(rrefInput).matrix
        free == SortedSeq(FreeColumns(R))
        basis == nullSpaceBasis.vectors
    IN /\ Len(basis) = Len(free)
       /\ \A k \in 1..Len(free) :
            /\ Len(basis[k]) = Len(R[1])
            /\ basis[k][free[k]] = One
            /\ \A g \in FreeColumns(R) \ {free[k]} : basis[k][g] = Zero
            /\ \A row \in 1..Len(R) :
                 LET p == firstNonZero(R[row], 1) IN
                 p # 0 => basis[k][p] = RatNeg(R[row][free[k]])

\* a matrix with two free columns, the second one before a pivot column, and
\* a basis vector with a non-zero entry at a pivot column
C5_Witness ==
  /\ nullSpaceBasis.done
  /\ Len(rrefInput[1]) = 3
  /\ FreeColumns(rref(rrefInput).matrix) = {1, 3}
  /\ Len(nullSpaceBasis.vectors) = 2
  /\ nullSpaceBasis.vectors[2][2] # Zero

\* the rows of R that are not zero
NonZeroRows(R) == {i \in 1..Len(R) : firstNonZero(R[i], 1) # 0}

\* the sum over the rows i of R, from row i on, of u[pivots[i]] * R[i][j]
RECURSIVE PivotCombination(_, _, _, _, _)
PivotCombination(R, pivots, u, j, i) ==
  IF i > Len(R) THEN Zero
  ELSE IF pivots[i] = 0 \/ u[pivots[i]] = Zero \/ R[i][j] = Zero
  THEN PivotCombination(R, pivots, u, j, i + 1)
  ELSE RatAdd(RatMul(u[pivots[i]], R[i][j]), PivotCombination(R, pivots, u, j, i + 1))

\* the columns of R in which a row has its first non-zero entry
PivotColumns(R) == {firstNonZero(R[i], 1) : i \in NonZeroRows(R)}

\* M has as many independent rows as there are columns in J: a square
\* submatrix of M on the columns J has a non-zero determinant
HasIndependentRows(M, J) ==
  \/ J = {}
  \/ \E I \in SUBSET (1..Len(M)) :
       /\ Cardinality(I) = Cardinality(J)
       /\ RatDet(SubMatrix(M, I, J)) # Zero

\* u is a combination of the rows of R, for R in reduced row echelon form:
\* the coefficient of a row is the entry of u at the pivot column of the row
InRowSpace(R, u) ==
  LET pivots == [i \in 1..Len(R) |-> firstNonZero(R[i], 1)] IN
  \A j \in 1..Len(u) : u[j] = PivotCombination(R, pivots, u, j, 1)

ApplyRowOperation(m, o) ==
  IF o.op = "E1" THEN E1(m, o.r1, o.r2)
  ELSE IF o.op = "E2" THEN E2(m, o.r1, o.scalar)
  ELSE E3(m, o.r1, o.r2, o.scalar)

RECURSIVE Replay(_, _, _)
Replay(m, ops, k) ==
  IF k > Len(ops) THEN m ELSE Replay(ApplyRowOperation(m, ops[k]), ops, k + 1)

\* a row swap, a scaling by a non-zero number, or the replacement of a row by
\* itself minus a multiple of another row
IsRowOperation(o, rows) ==
  /\ o.r1 \in 1..rows
  /\ o.r2 \in 1..rows
  /\ o.op = "E1" => o.r1 # o.r2
  /\ o.op = "E2" => o.scalar # Zero
  /\ o.op = "E3" => o.r1 # o.r2

\* C6: rref(M) is in reduced row echelon form as isReducedRowEchelonForm
\* defines it, it is obtained from M by row swaps, row scalings and row
\* replacements only (so M and rref(M) have the same row space: every row of
\* M is a combination of the rows of rref(M), and M has as many independent
\* rows as rref(M) has pivots), and rref(rref(M)) = rref(M).
C6_RrefIsReducedAndIdempotent ==
  rrefOutput.done =>
    LET R == rrefOutput.matrix IN
    /\ isReducedRowEchelonForm(R)
    /\ \A k \in 1..Len(rrefOutput.ops) :
         IsRowOperation(rrefOutput.ops[k], Len(rrefInput))
    /\ Replay(rrefInput, rrefOutput.ops, 1) = R
    /\ \A i \in 1..Len(rrefInput) : InRowSpace(R, rrefInput[i])
    /\ HasIndependentRows(rrefInput, PivotColumns(R))
    /\ rref(R) = Step(R, <<>>)

\* a matrix reduced with a swap, a scaling and a replacement
C6_Witness ==
  /\ rrefOutput.done
  /\ rrefOutput.matrix # rrefInput
  /\ \A name \in {"E1", "E2", "E3"} :
       \E k \in 1..Len(rrefOutput.ops) : rrefOutput.ops[k].op = name
  /\ isReducedRowEchelonForm(rrefOutput.matrix)
  /\ ~isReducedRowEchelonForm(rrefInput)

(***************************************************************************)
(* Coefficient lists handed to solveRealRoots: every list of at most three *)
(* coefficients drawn from the small integers, 5e-7, 1e-35 and -1e-35, and *)
(* every list of four to six coefficients 0 or 1.  For the degrees 3 to 5  *)
(* the inner solver returns any ascending list of at most degree values    *)
(* drawn from 0, 5e-7, 1/2, 1/2 + 5e-7, 1 - 5e-7 and 1.                    *)
(***************************************************************************)
\* the integer coefficients lie in -MaxQuadCoef .. MaxQuadCoef
MaxQuadCoef == 2

\* the number of coefficients is at most MaxCoeffs
MaxCoeffs == MaxOrder + 1

SmallCoefficients ==
  {EpsInt(n) : n \in (-MaxQuadCoef)..MaxQuadCoef}
    \cup {<<0, 5>>, <<0, 0, 0, 0, 0, 1>>, <<0, 0, 0, 0, 0, -1>>}

InnerValues ==
  << RealInt(0), RealOf(<<0, 5>>), Half, Real(<<1, 10>>, <<>>, <<>>, <<2>>),
     RealOf(<<1, -5>>), RealInt(1) >>

\* the ascending lists of k of the values
InnerRootLists(k) ==
  {[i \in 1..k |-> InnerValues[s[i]]] :
     s \in {t \in [1..k -> 1..Len(InnerValues)] :
              \A i \in 1..(k - 1) : t[i] <= t[i + 1]}}

\* solveRealRoots on at most three coefficients
SolveClosedForm ==
  /\ ~realRoots.done
  /\ Len(cleanCoefficients(inputCoeffs)) <= 3
  /\ realRoots' = [done |-> TRUE, roots |-> solveRealRoots(inputCoeffs, <<>>)]
  /\ UNCHANGED <<inputCoeffs, innerRoots>>
  /\ UNCHANGED rootsFrame

\* solveRealRoots on four coefficients: solveCubicOptimized
SolveCubic ==
  /\ ~realRoots.done
  /\ Len(cleanCoefficients(inputCoeffs)) = 4
  /\ \E k \in 0..3 : \E inner \in InnerRootLists(k) :
       /\ innerRoots' = inner
       /\ realRoots' = [done |-> TRUE, roots |-> solveRealRoots(inputCoeffs, inner)]
  /\ UNCHANGED inputCoeffs
  /\ UNCHANGED rootsFrame

\* solveRealRoots on more coefficients: optimizedNewtonRaphson
SolveHigherDegree ==
  /\ ~realRoots.done
  /\ Len(cleanCoefficients(inputCoeffs)) > 4
  /\ \E k \in 0..(Len(cleanCoefficients(inputCoeffs)) - 1) :
       \E inner \in InnerRootLists(k) :
         /\ innerRoots' = inner
         /\ realRoots' = [done |-> TRUE, roots |-> solveRealRoots(inputCoeffs, inner)]
  /\ UNCHANGED inputCoeffs
  /\ UNCHANGED rootsFrame

InitRoots ==
  /\ EigenIdle
  /\ BasisIdle
  /\ QrIdle
  /\ RunIdle
  /\ AppIdle
  /\ SeedIdle
  /\ DetIdle
  /\ PolyIdle
  /\ RrefIdle
  /\ NewtonIdle
  /\ TierIdle
  /\ \/ \E n \in 0..3 : inputCoeffs \in [1..n -> SmallCoefficients]
     \/ \E n \in 4..MaxCoeffs : inputCoeffs \in [1..n -> {EpsInt(0), EpsInt(1)}]
  /\ innerRoots = <<>>
  /\ realRoots = [done |-> FALSE, roots |-> <<>>]

NextRoots == SolveClosedForm \/ SolveCubic \/ SolveHigherDegree

SpecRoots == InitRoots /\ [][NextRoots]_vars

(***************************************************************************)
(* Roots of a quadratic, for reference.                                    *)
(***************************************************************************)
RealEq(x, y) == RealSign(RealSub(x, y)) = 0

\* b^2 - 4ac
Discriminant(q) == EpsSub(EpsMul(q[2], q[2]), EpsMul(<<4>>, EpsMul(q[1], q[3])))

\* (-b + s * sqrt(d)) / (2a), for s = 1 or s = -1
QuadraticFormula(q, s) ==
  Real(EpsMul(<<-1>>, q[2]), <<s>>, Discriminant(q), EpsMul(<<2>>, q[1]))

\* a * x^2 + b * x + c = 0, for x = (p + r * sqrt(d)) / q: multiplied by q^2,
\* the left side is rational + surd * sqrt(d)
IsRootOf(q, x) ==
  LET rational == EpsAdd(EpsMul(q[1], EpsAdd(EpsMul(x.p, x.p),
                                             EpsMul(EpsMul(x.r, x.r), x.d))),
                         EpsAdd(EpsMul(q[2], EpsMul(x.p, x.q)),
                                EpsMul(q[3], EpsMul(x.q, x.q))))
      surd == EpsAdd(EpsMul(<<2>>, EpsMul(q[1], EpsMul(x.p, x.r))),
                     EpsMul(q[2], EpsMul(x.r, x.q)))
  IN SurdSign(rational, surd, x.d) = 0

\* the two roots are more than 1e-14 apart: sqrt(d) / |a| > 1e-14, that is
\* d > 1e-28 * a^2
RootsApart(q) ==
  EpsSign(EpsSub(Discriminant(q), EpsMul(<<0, 0, 0, 0, 1>>, EpsMul(q[1], q[1])))) > 0

\* solveRealRoots has returned for a quadratic with a # 0
QuadraticSolved ==
  /\ realRoots.done
  /\ Len(inputCoeffs) = 3
  /\ EpsSign(inputCoeffs[1]) # 0

\* there are two roots, the two values of the quadratic formula, in
\* ascending order
TwoRootsAscending ==
  /\ Len(realRoots.roots) = 2
  /\ RealLess(realRoots.roots[1], realRoots.roots[2])
  /\ \A k \in 1..2 : IsRootOf(inputCoeffs, realRoots.roots[k])
  /\ \A s \in {-1, 1} :
       \E k \in 1..2 : RealEq(realRoots.roots[k], QuadraticFormula(inputCoeffs, s))

\* C7: for a quadratic a*x^2 + b*x + c with a # 0, solveRealRoots returns no
\* root when b^2 - 4ac < 0, the one root -b/(2a) when it is 0, and when it is
\* positive the two roots of the quadratic formula in ascending order if they
\* are more than 1e-14 apart, and else the one root (-b + sqrt(d))/(2a).
C7_QuadraticRoots ==
  QuadraticSolved =>
    LET d == EpsSign(Discriminant(inputCoeffs)) IN
    /\ d < 0 => Len(realRoots.roots) = 0
    /\ d = 0 =>
         /\ Len(realRoots.roots) = 1
         /\ RealEq(realRoots.roots[1],
                   Real(EpsMul(<<-1>>, inputCoeffs[2]), <<>>, <<>>,
                        EpsMul(<<2>>, inputCoeffs[1])))
    /\ (d > 0 /\ RootsApart(inputCoeffs)) => TwoRootsAscending
    /\ (d > 0 /\ ~RootsApart(inputCoeffs)) =>
         /\ Len(realRoots.roots) = 1
         /\ RealEq(realRoots.roots[1], QuadraticFormula(inputCoeffs, 1))

\* C7 as stated: whenever the discriminant is positive there are the two
\* roots
C7_TwoRootsWheneverPositive ==
  (QuadraticSolved /\ EpsSign(Discriminant(inputCoeffs)) > 0) => TwoRootsAscending

\* -x^2 + x + 1, of discriminant 5: its two roots have been returned, the
\* one with + sqrt(d) first
C7_Witness ==
  /\ QuadraticSolved
  /\ inputCoeffs = << <<-1>>, <<1>>, <<1>> >>
  /\ TwoRootsAscending
  /\ RealEq(realRoots.roots[1], QuadraticFormula(inputCoeffs, 1))

\* x^2 + 1, the characteristic polynomial of [[0,-1],[1,0]]: no root
RotationHasNoRealRoot ==
  (realRoots.done /\ inputCoeffs = << <<1>>, <<>>, <<1>> >>) => realRoots.roots = <<>>

\* the integers a root is compared with
NearbyIntegers == (-MaxMagnitude)..MaxMagnitude

\* every root within 1e-6 of an integer is that integer, and no two roots
\* are less than 1e-6 apart
PostProcessed(roots) ==
  /\ \A k \in 1..Len(roots) : \A n \in NearbyIntegers :
       RealLess(RealAbs(RealSub(roots[k], RealInt(n))), EPSILON)
         => RealEq(roots[k], RealInt(n))
  /\ \A j \in 1..Len(roots) : \A k \in (j + 1)..Len(roots) :
       ~RealLess(RealAbs(RealSub(roots[j], roots[k])), EPSILON)

\* C8: the roots solveRealRoots returns for a polynomial of degree 1 to 5 are
\* post-processed: a root within 1e-6 of an integer is that integer, and no
\* two roots are less than 1e-6 apart.
C8_RootsPostProcessed ==
  (realRoots.done /\ Len(cleanCoefficients(inputCoeffs)) \in 2..(MaxOrder + 1))
    => PostProcessed(realRoots.roots)

\* from degree 3 on the roots are post-processed
PostProcessedFromDegree3 ==
  (realRoots.done /\ Len(cleanCoefficients(inputCoeffs)) \in 4..(MaxOrder + 1))
    => PostProcessed(realRoots.roots)

(***************************************************************************)
(* optimizedNewtonRaphson on the polynomials of degree 4 and 5 that are    *)
(* products of factors x - r, r in -MaxRoot .. MaxRoot, and x^2 + 1.  One  *)
(* step is one pass of the loop over the starting points.                  *)
(***************************************************************************)
RECURSIVE FromRoots(_)
FromRoots(rs) ==
  IF Len(rs) = 0 THEN <<1>> ELSE polyMultiply(<<1, -Head(rs)>>, FromRoots(Tail(rs)))

\* the products of n factors x - r and j factors x^2 + 1
NewtonInputs(n, j) ==
  {polyMultiply(FromRoots(s), polyPower(<<1, 0, 1>>, j)) :
     s \in {t \in [1..n -> (-MaxRoot)..MaxRoot] : \A i \in 1..(n - 1) : t[i] <= t[i + 1]}}

NewtonDegree == Len(newtonCoeffs) - 1

LastStart == Len(generateSmartStartingPointsOptimized)

\* the candidate of the starting point is verified: it is pushed, the
\* polynomial is deflated and the next pass of the outer loop begins, or the
\* roots are returned after the last pass
AcceptRoot ==
  /\ ~newtonReturn.done
  /\ \E root \in robustNewtonIteration(generateSmartStartingPointsOptimized[startIndex],
                                       newtonRoots) :
       /\ root.found
       /\ isVerified(newtonCoeffs, root.x)
       /\ newtonRoots' = Append(newtonRoots, root.x)
       /\ deflatedCoeffs' = deflatePolynomial(deflatedCoeffs, root.x)
       /\ rootIndex' = rootIndex + 1
       /\ startIndex' = 1
       /\ newtonReturn' =
            IF rootIndex + 1 < NewtonDegree THEN newtonReturn
            ELSE [done |-> TRUE, roots |-> sortNumbers(Append(newtonRoots, root.x))]
  /\ UNCHANGED newtonCoeffs
  /\ UNCHANGED newtonFrame

\* the starting point gives null or a candidate that is not verified, and
\* there is a next starting point
NextStartingPoint ==
  /\ ~newtonReturn.done
  /\ startIndex < LastStart
  /\ \E root \in robustNewtonIteration(generateSmartStartingPointsOptimized[startIndex],
                                       newtonRoots) :
       ~(root.found /\ isVerified(newtonCoeffs, root.x))
  /\ startIndex' = startIndex + 1
  /\ UNCHANGED <<newtonCoeffs, deflatedCoeffs, newtonRoots, rootIndex, newtonReturn>>
  /\ UNCHANGED newtonFrame

\* the last starting point gives null or a candidate that is not verified:
\* foundRoot is false, the search stops and the roots are returned
StopSearch ==
  /\ ~newtonReturn.done
  /\ startIndex = LastStart
  /\ \E root \in robustNewtonIteration(generateSmartStartingPointsOptimized[startIndex],
                                       newtonRoots) :
       ~(root.found /\ isVerified(newtonCoeffs, root.x))
  /\ newtonReturn' = [done |-> TRUE, roots |-> sortNumbers(newtonRoots)]
  /\ UNCHANGED <<newtonCoeffs, deflatedCoeffs, newtonRoots, rootIndex, startIndex>>
  /\ UNCHANGED newtonFrame

InitNewton ==
  /\ EigenIdle
  /\ BasisIdle
  /\ QrIdle
  /\ RunIdle
  /\ AppIdle
  /\ SeedIdle
  /\ DetIdle
  /\ PolyIdle
  /\ RrefIdle
  /\ RootsIdle
  /\ TierIdle
  /\ \E nj \in {<<4, 0>>, <<5, 0>>, <<2, 1>>, <<3, 1>>, <<0, 2>>, <<1, 2>>} :
       newtonCoeffs \in NewtonInputs(nj[1], nj[2])
  /\ deflatedCoeffs = newtonCoeffs
  /\ newtonRoots = <<>>
  /\ rootIndex = 0
  /\ startIndex = 1
  /\ newtonReturn = [done |-> FALSE, roots |-> <<>>]

NextNewton == AcceptRoot \/ NextStartingPoint \/ StopSearch

SpecNewton == InitNewton /\ [][NextNewton]_vars

(***************************************************************************)
(* The loop of optimizedNewtonRaphson, for reference.                      *)
(***************************************************************************)
\* the value at x of the polynomial of the coefficients, term by term from
\* the coefficient i on
RECURSIVE PolyValueFrom(_, _, _)
PolyValueFrom(coeffs, x, i) ==
  IF i > Len(coeffs) THEN 0
  ELSE coeffs[i] * IntPow(x, Len(coeffs) - i) + PolyValueFrom(coeffs, x, i + 1)

PolyValue(coeffs, x) == PolyValueFrom(coeffs, x, 1)

\* how often v occurs in s
Occurrences(s, v) == Cardinality({k \in 1..Len(s) : s[k] = v})

\* accepted roots plus degree of the working polynomial is the degree
StageCount == Len(newtonRoots) + (Len(deflatedCoeffs) - 1) = NewtonDegree

\* every accepted root is a root of the original polynomial
AcceptedAreRoots ==
  \A k \in 1..Len(newtonRoots) : PolyValue(newtonCoeffs, newtonRoots[k]) = 0

\* what is returned is the accepted roots in ascending order, at most degree
\* of them
ReturnsAccepted ==
  newtonReturn.done =>
    /\ Len(newtonReturn.roots) = Len(newtonRoots)
    /\ Len(newtonReturn.roots) <= NewtonDegree
    /\ \A v \in (-MaxRoot)..MaxRoot :
         Occurrences(newtonReturn.roots, v) = Occurrences(newtonRoots, v)
    /\ \A k \in 1..(Len(newtonReturn.roots) - 1) :
         newtonReturn.roots[k] <= newtonReturn.roots[k + 1]

\* a step accepts at most one root, a root of the original polynomial; a
\* pass over the starting points that ends without a root returns; the loop
\* returns only then or with as many roots as the degree; nothing happens
\* after the return
LoopStep ==
  /\ newtonRoots' # newtonRoots =>
       \E x \in (-MaxRoot)..MaxRoot :
         /\ newtonRoots' = Append(newtonRoots, x)
         /\ PolyValue(newtonCoeffs, x) = 0
  /\ (~newtonReturn.done /\ startIndex = LastStart /\ newtonRoots' = newtonRoots)
       => newtonReturn'.done
  /\ (~newtonReturn.done /\ newtonReturn'.done) =>
       \/ Len(newtonRoots') = NewtonDegree
       \/ newtonRoots' = newtonRoots /\ startIndex = LastStart
  /\ newtonReturn.done => UNCHANGED newtonVars

\* C9: at every stage of the loop of optimizedNewtonRaphson the number of
\* accepted roots plus the degree of the deflated polynomial is the degree of
\* the original one; a root is accepted only when it is a root of the
\* original polynomial; the loop stops at the first stage where no starting
\* point gives a verified root, and returns the accepted roots only, at most
\* degree of them.
C9_NewtonLoop ==
  /\ [](StageCount /\ AcceptedAreRoots /\ ReturnsAccepted)
  /\ [][LoopStep]_vars

\* a polynomial of degree 5: two different roots were accepted, the third
\* stage found none and the two roots have been returned
C9_Witness ==
  /\ newtonReturn.done
  /\ NewtonDegree = 5
  /\ Len(newtonReturn.roots) = 2
  /\ newtonRoots[1] > newtonRoots[2]
  /\ Len(deflatedCoeffs) = 4
  /\ startIndex = LastStart

(***************************************************************************)
(* solveCharacteristicPolynomial for the orders 0 to MaxOrder + 1, every   *)
(* solver returning any list of at most MaxTierRoots roots in              *)
(* 0 .. MaxTierValue.                                                      *)
(***************************************************************************)
MaxTierRoots == 2

MaxTierValue == 2

TierRootLists == UNION {[1..k -> 0..MaxTierValue] : k \in 0..MaxTierRoots}

TierResults == {Threw} \cup {Returned(rootList) : rootList \in TierRootLists}

\* solveCharacteristicPolynomial returns
SolveCharacteristicPolynomial ==
  /\ ~tierOutcome.done
  /\ tierOrder \in 1..MaxOrder
  /\ \E polynomialRoots \in TierRootLists :
       \E diagonalizationRoots \in TierResults : \E mathjsRoots \in TierResults :
         LET result == solveCharacteristicPolynomial(tierOrder, polynomialRoots,
                                                     diagonalizationRoots, mathjsRoots)
         IN tierOutcome' = [done |-> TRUE, threw |-> result.threw,
                            calls |-> result.calls, roots |-> result.roots]
  /\ UNCHANGED tierOrder
  /\ UNCHANGED tierFrame

\* solveCharacteristicPolynomial throws: the size is not supported
SizeNotSupported ==
  /\ ~tierOutcome.done
  /\ tierOrder \notin 1..MaxOrder
  /\ LET result == solveCharacteristicPolynomial(tierOrder, <<>>, Threw, Threw)
     IN tierOutcome' = [done |-> TRUE, threw |-> result.threw,
                        calls |-> result.calls, roots |-> result.roots]
  /\ UNCHANGED tierOrder
  /\ UNCHANGED tierFrame

InitTiers ==
  /\ EigenIdle
  /\ BasisIdle
  /\ QrIdle
  /\ RunIdle
  /\ AppIdle
  /\ SeedIdle
  /\ DetIdle
  /\ PolyIdle
  /\ RrefIdle
  /\ RootsIdle
  /\ NewtonIdle
  /\ tierOrder \in 0..(MaxOrder + 1)
  /\ tierOutcome = [done |-> FALSE, threw |-> FALSE, calls |-> <<>>, roots |-> <<>>]

NextTiers == SolveCharacteristicPolynomial \/ SizeNotSupported

SpecTiers == InitTiers /\ [][NextTiers]_vars

(***************************************************************************)
(* The order of the solver tiers.                                          *)
(***************************************************************************)
\* the position of the call of the solver in calls, or 0
CallOf(solver) ==
  IF \E k \in 1..Len(tierOutcome.calls) : tierOutcome.calls[k].solver = solver
  THEN CHOOSE k \in 1..Len(tierOutcome.calls) : tierOutcome.calls[k].solver = solver
  ELSE 0

\* the solver was called and gave no root
GaveNoRoot(solver) ==
  /\ CallOf(solver) # 0
  /\ LET result == tierOutcome.calls[CallOf(solver)].result
     IN result.threw \/ Len(result.roots) = 0

\* C10: for a matrix of order 4 or 5 the root solver solveRealRoots is
\* called first; the diagonalization is called only after solveRealRoots
\* gave no root, and math.eigs only after the diagonalization gave none.
C10_TiersInOrder ==
  (tierOutcome.done /\ tierOrder \in {4, 5}) =>
    /\ CallOf("solveRealRoots") = 1
    /\ CallOf("findEigenvaluesByDiagonalization") # 0
         => /\ GaveNoRoot("solveRealRoots")
            /\ CallOf("solveRealRoots") < CallOf("findEigenvaluesByDiagonalization")
    /\ CallOf("math.eigs") # 0
         => /\ GaveNoRoot("findEigenvaluesByDiagonalization")
            /\ CallOf("findEigenvaluesByDiagonalization") < CallOf("math.eigs")

\* what holds of the tiers for the orders 4 and 5: the diagonalization is
\* called first, and math.eigs only after the diagonalization gave no root
DiagonalizationFirst ==
  (tierOutcome.done /\ tierOrder \in {4, 5}) =>
    /\ CallOf("solveRealRoots") = 0
    /\ CallOf("findEigenvaluesByDiagonalization") = 1
    /\ CallOf("math.eigs") # 0
         => /\ GaveNoRoot("findEigenvaluesByDiagonalization")
            /\ CallOf("math.eigs") = 2

(***************************************************************************)
(* findEigenvalues.  The inputs are the integer matrices of order 1 to 3   *)
(* whose real eigenvalues are integers (order 3: with zero cells (2,0) and *)
(* (2,1) and a diagonal that is not negative), and the empty and the       *)
(* ragged arrays; whether math.eigs throws on the input is decided by the  *)
(* library.                                                                *)
(***************************************************************************)
MaxCell == 2

DiagonalCells == (-MaxCell)..MaxCell

\* det(xI - A) at the number x, by cofactor expansion
CharacteristicAt(A, x) == Det(XIMinusAAt(A, x))

\* the coefficients of det(xI - A), highest power first, for an order <= 3
CharacteristicCoefficients(A) ==
  LET f0 == CharacteristicAt(A, 0)
      f1 == CharacteristicAt(A, 1)
      f2 == CharacteristicAt(A, 2)
      f3 == CharacteristicAt(A, 3)
      b2 == f2 - 2 * f1 + f0
      b3 == f3 - 3 * f2 + 3 * f1 - f0
      c3 == b3 \div 6
      c2 == (b2 - b3) \div 2
      c1 == f1 - f0 - c2 - c3
  IN Reverse(SubSeq(<<f0, c1, c2, c3>>, 1, Len(A) + 1))

\* the quotient of the polynomial by (x - r), for a root r
Quotient(poly, r) ==
  [k \in 1..(Len(poly) - 1) |-> PolyValue(SubSeq(poly, 1, k), r)]

\* how often (x - r) divides the polynomial
RECURSIVE Multiplicity(_, _)
Multiplicity(poly, r) ==
  IF Len(poly) > 1 /\ PolyValue(poly, r) = 0
  THEN 1 + Multiplicity(Quotient(poly, r), r)
  ELSE 0

\* the polynomial without its linear factors (x - r), r from lo to hi
RECURSIVE WithoutRoots(_, _, _)
WithoutRoots(poly, lo, hi) ==
  IF lo > hi THEN poly
  ELSE IF Len(poly) > 1 /\ PolyValue(poly, lo) = 0
       THEN WithoutRoots(Quotient(poly, lo), lo, hi)
       ELSE WithoutRoots(poly, lo + 1, hi)

RootRange == 4 * MaxCell + 4

\* what is left of det(xI - A) once its integer roots are divided out
ComplexPart(A) == WithoutRoots(CharacteristicCoefficients(A), -RootRange, RootRange)

\* every real eigenvalue of A is an integer: the rest has no real root
IntegerSpectrum(A) ==
  LET rest == ComplexPart(A) IN
  \/ Len(rest) = 1
  \/ Len(rest) = 3 /\ rest[2] * rest[2] - 4 * rest[1] * rest[3] < 0

\* the number of real eigenvalues of A, counted with multiplicity
RealEigenvalueCount(A) == Len(A) + 1 - Len(ComplexPart(A))

SquareMatrices(n) ==
  IF n < 3 THEN [1..n -> [1..n -> DiagonalCells]]
  ELSE {<<<<dg[1], up[1], up[2]>>, <<up[3], dg[2], up[4]>>, <<0, 0, dg[3]>>>> :
          dg \in [1..3 -> 0..MaxCell], up \in [1..4 -> CellValues]}

\* the empty array and the arrays of rows of zeros that are not square
RaggedInputs ==
  {<<>>} \cup
  UNION {{A \in [1..n -> UNION {[1..m -> {0}] : m \in 0..ClosedFormOrder}] :
            \E i \in 1..n : Len(A[i]) # n} : n \in 1..ClosedFormOrder}

\* MatrixInput hands the matrix to findEigenvalues, which returns
FindEigenvalues ==
  /\ ~eigenResult.done
  /\ validateInput(eigenInput) = ""
  /\ eigenResult' = findEigenvalues(eigenInput, eigsThrows)
  /\ UNCHANGED <<eigenInput, eigsThrows>>
  /\ UNCHANGED eigenFrame

\* findEigenvalues on an array that is empty or not square
RejectInput ==
  /\ ~eigenResult.done
  /\ validateInput(eigenInput) # ""
  /\ eigenResult' = findEigenvalues(eigenInput, eigsThrows)
  /\ UNCHANGED <<eigenInput, eigsThrows>>
  /\ UNCHANGED eigenFrame

InitEigen ==
  /\ DetIdle
  /\ PolyIdle
  /\ RrefIdle
  /\ RootsIdle
  /\ NewtonIdle
  /\ TierIdle
  /\ BasisIdle
  /\ QrIdle
  /\ RunIdle
  /\ AppIdle
  /\ SeedIdle
  /\ \/ \E n \in 1..ClosedFormOrder :
          /\ eigenInput \in SquareMatrices(n)
          /\ IntegerSpectrum(eigenInput)
     \/ eigenInput \in RaggedInputs
  /\ eigsThrows \in BOOLEAN
  /\ eigenResult = NoEigenResult

NextEigen == FindEigenvalues \/ RejectInput

SpecEigen == InitEigen /\ [][NextEigen]_vars

(***************************************************************************)
(* Properties of findEigenvalues.                                          *)
(***************************************************************************)
\* findEigenvalues returned a result
EigenReturned == eigenResult.done /\ ~eigenResult.threw

\* a non-empty array of n rows of length n
IsSquareArray(A) == Len(A) >= 1 /\ \A i \in 1..Len(A) : Len(A[i]) = Len(A)

UnitVector(n, i) == [j \in 1..n |-> IF j = i THEN One ELSE Zero]

RECURSIVE SumOf(_)
SumOf(s) == IF s = <<>> THEN 0 ELSE Head(s) + SumOf(Tail(s))

\* the algebraic multiplicity of the number r as an eigenvalue of A
AlgebraicMultiplicity(A, r) == Multiplicity(CharacteristicCoefficients(A), r)

\* C11: on every square matrix of order 1 to 5 findEigenvalues returns a
\* result and does not throw, also when math.eigs throws on the matrix.
C11_ReturnsRatherThanThrows ==
  (eigenResult.done /\ IsSquareArray(eigenInput) /\ Len(eigenInput) <= MaxOrder)
    => ~eigenResult.threw

\* C20: on the empty array and on an array with a row whose length is not the
\* number of rows, findEigenvalues throws its input error before any stage
\* of the pipeline has run, and nothing of a result exists.
C20_InvalidInputRaisesFirst ==
  (eigenResult.done /\ ~IsSquareArray(eigenInput)) =>
    /\ eigenResult.threw
    /\ eigenResult.message =
         (IF eigenInput = <<>> THEN "Matrix cannot be empty"
          ELSE "Matrix must be square (n×n)")
    /\ eigenResult.stages = <<>>
    /\ eigenResult.eigenvalues = <<>>
    /\ eigenResult.eigenspaces = <<>>

\* two rows, the second of three cells: rejected as not square
C20_Witness ==
  /\ eigenResult.done
  /\ Len(eigenInput) = 2
  /\ Len(eigenInput[1]) = 2
  /\ Len(eigenInput[2]) = 3
  /\ eigenResult.threw
  /\ eigenResult.message = "Matrix must be square (n×n)"
  /\ eigenResult.stages = <<>>

\* C16: isReal is true exactly when all n eigenvalues of the matrix, counted
\* with multiplicity, are real.
C16_IsRealIffAllReal ==
  EigenReturned =>
    (eigenResult.isReal <=> RealEigenvalueCount(eigenInput) = Len(eigenInput))

AllReal == RealEigenvalueCount(eigenInput) = Len(eigenInput)

\* C17 as stated: when every eigenvalue is real and found, the entries of the
\* returned eigenvalues list sum to trace(A), for repeated eigenvalues too.
C17_SumIsTrace ==
  (EigenReturned /\ AllReal) => SumOf(eigenResult.eigenvalues) = eigenResult.trace

\* C17, amended: when every eigenvalue is real, the entries of the returned
\* list, each counted with its algebraic multiplicity, sum to trace(A), the
\* sum of the diagonal; the plain sum is trace(A) when the list has n entries.
C17_WeightedSumIsTrace ==
  (EigenReturned /\ AllReal) =>
    /\ eigenResult.trace = SumOf([i \in 1..Len(eigenInput) |-> eigenInput[i][i]])
    /\ SumOf([k \in 1..Len(eigenResult.eigenvalues) |->
                eigenResult.eigenvalues[k]
                  * AlgebraicMultiplicity(eigenInput, eigenResult.eigenvalues[k])])
         = eigenResult.trace
    /\ Len(eigenResult.eigenvalues) = Len(eigenInput)
         => SumOf(eigenResult.eigenvalues) = eigenResult.trace

\* order 3, a double and a simple eigenvalue, both returned once, trace not 0
C17_Witness ==
  /\ EigenReturned
  /\ AllReal
  /\ Len(eigenInput) = 3
  /\ Len(eigenResult.eigenvalues) = 2
  /\ eigenResult.trace = 5
  /\ SumOf(eigenResult.eigenvalues) = 3

\* C19: for diag(a, b) with a # b the eigenvalues are a and b, with the
\* eigenspace bases {e1} for a and {e2} for b; for a scalar matrix c * I of
\* order n <= 3 the only eigenvalue is c and its basis is e1, ..., en in order.
C19_DiagonalAndScalar ==
  EigenReturned =>
    LET n == Len(eigenInput)
        isDiagonal == \A i \in 1..n : \A j \in 1..n : i # j => eigenInput[i][j] = 0
        isScalar == isDiagonal /\ \A i \in 1..n : eigenInput[i][i] = eigenInput[1][1]
    IN /\ (n = 2 /\ isDiagonal /\ ~isScalar) =>
            /\ Len(eigenResult.eigenvalues) = 2
            /\ {eigenResult.eigenvalues[k] : k \in 1..2}
                 = {eigenInput[1][1], eigenInput[2][2]}
            /\ \A k \in 1..2 :
                 /\ eigenResult.eigenspaces[k].eigenvalue = eigenResult.eigenvalues[k]
                 /\ eigenResult.eigenspaces[k].basis =
                      (IF eigenResult.eigenvalues[k] = eigenInput[1][1]
                       THEN <<UnitVector(2, 1)>> ELSE <<UnitVector(2, 2)>>)
       /\ isScalar =>
            /\ eigenResult.eigenvalues = <<eigenInput[1][1]>>
            /\ Len(eigenResult.eigenspaces) = 1
            /\ eigenResult.eigenspaces[1].eigenvalue = eigenInput[1][1]
            /\ eigenResult.eigenspaces[1].basis = [k \in 1..n |-> UnitVector(n, k)]

\* diag(2, -1): eigenvalues -1 and 2, with e2 for -1 and e1 for 2
C19_Witness ==
  /\ EigenReturned
  /\ eigenInput = <<<<2, 0>>, <<0, -1>>>>
  /\ eigenResult.eigenvalues = <<-1, 2>>
  /\ eigenResult.eigenspaces[1].basis = <<UnitVector(2, 2)>>
  /\ eigenResult.eigenspaces[2].basis = <<UnitVector(2, 1)>>

\* 2 * I of order 3: the eigenvalue 2 with the basis e1, e2, e3
ScalarOfOrderThree ==
  /\ EigenReturned
  /\ eigenInput = <<<<2, 0, 0>>, <<0, 2, 0>>, <<0, 0, 2>>>>
  /\ eigenResult.eigenvalues = <<2>>
  /\ Len(eigenResult.eigenspaces[1].basis) = 3

(***************************************************************************)
(* What EigenspaceInfo receives: every eigenspace with the eigenvalue as   *)
(* {value, multiplicity} (Eigenvalue of math.ts), and its defective flag.  *)
(***************************************************************************)
\* the multiplicity of an eigenvalue: how often it is a root of the polynomial
\* of the coefficients (given by increasing exponent)
eigenvalueMultiplicity(coefficients, value) ==
  Multiplicity(Reverse(coefficients), value)

\* the eigenspaces of a result of findEigenvalues(inputMatrix), as displayed
displayedEigenspaces(inputMatrix, eigenspaces) ==
  LET coefficients ==
        rationalize(cleanExpressionLatex(calculateDeterminantExpression(
                      createXIMinusAMatrix(inputMatrix))), Len(inputMatrix))
  IN [k \in 1..Len(eigenspaces) |->
        [eigenvalue |-> [value |-> eigenspaces[k].eigenvalue,
                         multiplicity |-> eigenvalueMultiplicity(coefficients,
                                            eigenspaces[k].eigenvalue)],
         basis |-> eigenspaces[k].basis]]

\* getEigenspaceDimension
getEigenspaceDimension(eigenspace) == Len(eigenspace.basis)

\* dimension <= multiplicity
isDefectiveOrFull(dimension, multiplicity) == dimension <= multiplicity

\* dimension < eigenspace.eigenvalue.multiplicity: "Defective Eigenspace"
isDefectiveEigenspace(dimension, multiplicity) == dimension < multiplicity

BasisMatrices == UNION {[1..n -> [1..n -> CellValues]] : n \in 1..2}

FindEigenvectorBasis ==
  /\ ~basisResult.done
  /\ LET eigenspace == findEigenvectorBasis(basisInput.xIMinusA,
                                            basisInput.eigenvalue)
     IN basisResult' = [done |-> TRUE, eigenvalue |-> eigenspace.eigenvalue,
                        basis |-> eigenspace.basis]
  /\ basisInput' = [basisInput EXCEPT
                      !.xIMinusA = xIMinusAAfterCall(basisInput.xIMinusA,
                                                     basisInput.eigenvalue)]
  /\ UNCHANGED basisFrame

\* the loop of findEigenvalues going on to its next eigenvalue with the same
\* xIMinusA
NextEigenvalue ==
  /\ basisResult.done
  /\ \E val \in DiagonalCells :
       /\ val > basisInput.eigenvalue
       /\ basisInput' = [basisInput EXCEPT !.eigenvalue = val]
  /\ basisResult' = [done |-> FALSE, eigenvalue |-> 0, basis |-> <<>>]
  /\ UNCHANGED basisFrame

InitBasis ==
  /\ DetIdle
  /\ PolyIdle
  /\ RrefIdle
  /\ RootsIdle
  /\ NewtonIdle
  /\ TierIdle
  /\ EigenIdle
  /\ QrIdle
  /\ RunIdle
  /\ AppIdle
  /\ SeedIdle
  /\ \E A \in BasisMatrices : \E ev \in DiagonalCells :
       basisInput = [matrix |-> A, eigenvalue |-> ev,
                     xIMinusA |-> createXIMinusAMatrix(A)]
  /\ basisResult = [done |-> FALSE, eigenvalue |-> 0, basis |-> <<>>]

NextBasis == FindEigenvectorBasis \/ NextEigenvalue

SpecBasis == InitBasis /\ [][NextBasis]_vars

\* the string of a diagonal cell for the entry value of A
DiagonalString(value) ==
  IF value = 0 THEN <<Ch("x")>>
  ELSE IF value > 0
       THEN <<Ch("x"), Ch(" "), Ch("-"), Ch(" "), Num(value)>>
       ELSE <<Ch("x"), Ch(" "), Ch("+"), Ch(" "), Num(-value)>>

\* C25: the matrix createXIMinusAMatrix built has on each diagonal cell a
\* string containing x ("x", "x - v" or "x + |v|" after the sign of A[i][i])
\* and on each off-diagonal cell the number -A[i][j], and every
\* findEigenvectorBasis call of the loop of findEigenvalues leaves it so.
C25_CharacteristicMatrixKept ==
  LET A == basisInput.matrix
      built == basisInput.xIMinusA
  IN /\ Len(built) = Len(A)
     /\ \A i \in 1..Len(A) :
          /\ Len(built[i]) = Len(A)
          /\ \A j \in 1..Len(A) :
               IF i = j
               THEN /\ built[i][j] = StrCell(DiagonalString(A[i][i]))
                    /\ \E p \in 1..Len(built[i][j].s) :
                         built[i][j].s[p] = Ch("x")
               ELSE built[i][j] = NumCell(-A[i][j])

\* an eigenspace of dimension one has been computed from the matrix of a
\* negative and a positive diagonal entry
C25_Witness ==
  /\ basisResult.done
  /\ Len(basisInput.matrix) = 2
  /\ basisInput.matrix[1][1] < 0
  /\ basisInput.matrix[2][2] > 0
  /\ basisInput.matrix[1][2] # 0
  /\ basisInput.eigenvalue = basisInput.matrix[2][2]
  /\ Len(basisResult.basis) = 1


\* (eigenvalue * I - A) v, for a vector v of fractions
RECURSIVE RowTimesFrom(_, _, _)
RowTimesFrom(rowValues, v, j) ==
  IF j > Len(rowValues) THEN Zero
  ELSE RatAdd(RatMul(RatInt(rowValues[j]), v[j]), RowTimesFrom(rowValues, v, j + 1))

InNullSpace(A, ev, v) ==
  \A i \in 1..Len(A) : RowTimesFrom(XIMinusAAt(A, ev)[i], v, 1) = Zero

\* C13: every vector findEigenvectorBasis returns is a non-zero element of
\* the null space of (eigenvalue * I - A); when there is none, the basis
\* returned is empty.
C13_BasisInNullSpace ==
  basisResult.done =>
    \A k \in 1..Len(basisResult.basis) :
      /\ \E j \in 1..Len(basisResult.basis[k]) : basisResult.basis[k][j] # Zero
      /\ InNullSpace(basisInput.matrix, basisInput.eigenvalue, basisResult.basis[k])

\* for a number that is an eigenvalue of A the vectors returned are non-zero
\* elements of the null space
BasisOfAnEigenvalue ==
  (basisResult.done
     /\ Det(XIMinusAAt(basisInput.matrix, basisInput.eigenvalue)) = 0) =>
    /\ Len(basisResult.basis) >= 1
    /\ \A k \in 1..Len(basisResult.basis) :
         InNullSpace(basisInput.matrix, basisInput.eigenvalue, basisResult.basis[k])

(***************************************************************************)
(* qrAlgorithm(A, maxIterations), one pass of its loop at a time.          *)
(***************************************************************************)
MaxIterations == 3

QrMatrices ==
  UNION {[1..n -> [1..n -> {RatInt(c) : c \in DiagonalCells}]] : n \in 1..2}

\* one pass: decomposition, Ak = R * Q, convergence test
QRPass ==
  /\ ~qrReturn.done
  /\ ~qrReturn.converged
  /\ iter < qrMaxIterations
  /\ Ak' = qrStep(Ak)
  /\ iter' = iter + 1
  /\ qrReturn' = [qrReturn EXCEPT !.converged = offDiagonalConverged(qrStep(Ak))]
  /\ UNCHANGED <<qrInput, qrMaxIterations>>
  /\ UNCHANGED qrFrame

\* after the break or the last pass: the diagonal of Ak is returned
QRReturn ==
  /\ ~qrReturn.done
  /\ qrReturn.converged \/ iter = qrMaxIterations
  /\ qrReturn' = [qrReturn EXCEPT !.done = TRUE,
                    !.eigenvalues = extractEigenvalues(Ak)]
  /\ UNCHANGED <<qrInput, qrMaxIterations, Ak, iter>>
  /\ UNCHANGED qrFrame

InitQr ==
  /\ DetIdle
  /\ PolyIdle
  /\ RrefIdle
  /\ RootsIdle
  /\ NewtonIdle
  /\ TierIdle
  /\ EigenIdle
  /\ BasisIdle
  /\ RunIdle
  /\ AppIdle
  /\ SeedIdle
  /\ qrMaxIterations \in 1..MaxIterations
  /\ qrInput \in QrMatrices
  /\ ExactPasses(qrInput, qrMaxIterations)
  /\ Ak = qrInput
  /\ iter = 0
  /\ qrReturn = [done |-> FALSE, converged |-> FALSE, eigenvalues |-> <<>>]

NextQr == QRPass \/ QRReturn

SpecQr == InitQr /\ [][NextQr]_vars

\* C12: qrAlgorithm makes at most maxIterations passes, and it returns n
\* values only when the off-diagonal convergence test has passed: without
\* convergence fewer than n values come back.
C12_NonConvergenceVisible ==
  /\ iter <= qrMaxIterations
  /\ (qrReturn.done /\ Len(qrReturn.eigenvalues) = Len(qrInput))
       => qrReturn.converged

\* the passes are bounded and the values returned are the diagonal of Ak
PassesBoundedDiagonalReturned ==
  /\ iter <= qrMaxIterations
  /\ qrReturn.done =>
       /\ qrReturn.converged \/ iter = qrMaxIterations
       /\ qrReturn.eigenvalues = [i \in 1..Len(qrInput) |-> Ak[i][i]]

(***************************************************************************)
(* optimizedNewtonRaphson called twice on the same polynomial.  The grid   *)
(* of the starting points is bounds.min, the midpoint and bounds.max; the  *)
(* points of Math.random() lie anywhere from bounds.min up to bounds.max.  *)
(* robustNewtonIteration is deterministic in the polynomial and the start  *)
(* (the perturbations apart): what it returned for a polynomial and a      *)
(* start is what it returns for them again.                                *)
(***************************************************************************)
\* the points pushed by 'bounds.min + Math.random() * (bounds.max - bounds.min)'
RandomPoints == 1

runBounds == [min |-> -MaxRoot, max |-> MaxRoot]

RECURSIVE sortedPoints(_)
sortedPoints(points) ==
  IF points = {} THEN <<>>
  ELSE LET least == CHOOSE p \in points : \A q \in points : p <= q
       IN <<least>> \o sortedPoints(points \ {least})

\* generateSmartStartingPointsOptimized with the values Math.random() takes:
\* [...new Set(points)] sorted in ascending order
startingPointsWith(randomPoints) ==
  sortedPoints({runBounds.min, 0, runBounds.max}
                 \cup {randomPoints[i] : i \in 1..Len(randomPoints)})

\* what robustNewtonIteration can return on the deflated polynomial: null for
\* a start too close to an existing root, the start when f is below 1e-12 at
\* it, and else null or a number at which f is below 1e-10
newtonOutcomes(deflated, start, existingRoots) ==
  IF \E k \in 1..Len(existingRoots) : Abs(start - existingRoots[k]) < 1
  THEN {Null}
  ELSE IF evaluatePolynomial(deflated, start) = 0 THEN {Found(start)}
  ELSE {o \in robustNewtonIteration(start, existingRoots) :
          o.found => evaluatePolynomial(deflated, o.x) = 0}

\* what it returns now, given what it has returned before
outcomesNow(deflated, start, existingRoots) ==
  LET before == {e \in newtonOutcome : e.coeffs = deflated /\ e.start = start} IN
  IF \E k \in 1..Len(existingRoots) : Abs(start - existingRoots[k]) < 1
  THEN {Null}
  ELSE IF before # {} THEN {e.outcome : e \in before}
  ELSE newtonOutcomes(deflated, start, existingRoots)

recordOutcome(deflated, start, outcome) ==
  newtonOutcome \cup {[coeffs |-> deflated, start |-> start, outcome |-> outcome]}

RunDegree == Len(runCoeffs) - 1

Running == run \in {1, 2} /\ ~runReturn[run].done

\* the start of a pass of the outer loop: the starting points are generated
GeneratePoints ==
  /\ Running
  /\ runPoints = <<>>
  /\ \E randomPoints \in [1..RandomPoints -> runBounds.min..(runBounds.max - 1)] :
       runPoints' = startingPointsWith(randomPoints)
  /\ runStart' = 1
  /\ UNCHANGED <<runCoeffs, run, runDeflated, runRoots, newtonOutcome, runReturn>>
  /\ UNCHANGED runFrame

\* the start gives a verified root: push, deflate, next pass or return
RunAccept ==
  /\ Running
  /\ runPoints # <<>>
  /\ \E root \in outcomesNow(runDeflated, runPoints[runStart], runRoots) :
       /\ root.found
       /\ isVerified(runCoeffs, root.x)
       /\ newtonOutcome' = recordOutcome(runDeflated, runPoints[runStart], root)
       /\ runRoots' = Append(runRoots, root.x)
       /\ runDeflated' = deflatePolynomial(runDeflated, root.x)
       /\ runPoints' = <<>>
       /\ runStart' = 0
       /\ runReturn' =
            IF Len(runRoots) + 1 < RunDegree THEN runReturn
            ELSE [runReturn EXCEPT ![run] =
                    [done |-> TRUE, roots |-> sortNumbers(Append(runRoots, root.x))]]
  /\ UNCHANGED <<runCoeffs, run>>
  /\ UNCHANGED runFrame

\* the start gives nothing verified and there is a next start
RunNextStart ==
  /\ Running
  /\ runPoints # <<>>
  /\ runStart < Len(runPoints)
  /\ \E root \in outcomesNow(runDeflated, runPoints[runStart], runRoots) :
       /\ ~(root.found /\ isVerified(runCoeffs, root.x))
       /\ newtonOutcome' = recordOutcome(runDeflated, runPoints[runStart], root)
  /\ runStart' = runStart + 1
  /\ UNCHANGED <<runCoeffs, run, runDeflated, runRoots, runPoints, runReturn>>
  /\ UNCHANGED runFrame

\* the last start gives nothing verified: the roots found are returned
RunStop ==
  /\ Running
  /\ runPoints # <<>>
  /\ runStart = Len(runPoints)
  /\ \E root \in outcomesNow(runDeflated, runPoints[runStart], runRoots) :
       /\ ~(root.found /\ isVerified(runCoeffs, root.x))
       /\ newtonOutcome' = recordOutcome(runDeflated, runPoints[runStart], root)
  /\ runReturn' = [runReturn EXCEPT ![run] =
                     [done |-> TRUE, roots |-> sortNumbers(runRoots)]]
  /\ UNCHANGED <<runCoeffs, run, runDeflated, runRoots, runPoints, runStart>>
  /\ UNCHANGED runFrame

\* the pipeline is run again on the same input
RunAgain ==
  /\ run = 1
  /\ runReturn[1].done
  /\ run' = 2
  /\ runDeflated' = runCoeffs
  /\ runRoots' = <<>>
  /\ runPoints' = <<>>
  /\ runStart' = 0
  /\ UNCHANGED <<runCoeffs, newtonOutcome, runReturn>>
  /\ UNCHANGED runFrame

InitRuns ==
  /\ DetIdle
  /\ PolyIdle
  /\ RrefIdle
  /\ RootsIdle
  /\ NewtonIdle
  /\ TierIdle
  /\ EigenIdle
  /\ BasisIdle
  /\ QrIdle
  /\ AppIdle
  /\ SeedIdle
  /\ runCoeffs \in NewtonInputs(2, 1)
  /\ run = 1
  /\ runDeflated = runCoeffs
  /\ runRoots = <<>>
  /\ runPoints = <<>>
  /\ runStart = 0
  /\ newtonOutcome = {}
  /\ runReturn = <<NoRun, NoRun>>

NextRuns == GeneratePoints \/ RunAccept \/ RunNextStart \/ RunStop \/ RunAgain

SpecRuns == InitRuns /\ [][NextRuns]_vars

\* the eigenvalues list of the pipeline for the roots a run returned:
\* validateEigenvalues(optimizedNewtonRaphson(poly, coeffs))
eigenvaluesOfRun(k) ==
  validateEigenvalues([i \in 1..Len(runReturn[k].roots) |->
                         RealInt(runReturn[k].roots[i])])

\* C18: two runs of the pipeline on the same input return identical
\* eigenvalue lists, whatever values the random starting points take.
C18_RunsAgree ==
  (runReturn[1].done /\ runReturn[2].done) => eigenvaluesOfRun(1) = eigenvaluesOfRun(2)

\* robustNewtonIteration is a function of the polynomial and the start: the
\* second run gets what the first run got
OutcomesAreAFunction ==
  \A d, e \in newtonOutcome :
    (d.coeffs = e.coeffs /\ d.start = e.start) => d.outcome = e.outcome

(***************************************************************************)
(* Any text handed to expandPolynomialManual: every string of at most      *)
(* MaxFree lexemes over the characters of the expander and a character it  *)
(* does not know, two operands written side by side, and a base raised to  *)
(* an exponent of any form.                                                *)
(***************************************************************************)
\* the longest string typed freely
MaxFree == 4

FreeAlphabet ==
  {Ch(c) : c \in {"x", "+", "-", "*", "^", "(", ")", "y"}}
    \cup {Num(n) : n \in Literals}

\* "1.5", one NUM token whose value is parseFloat("1.5")
OneAndAHalf == HalfLiteral(1)

\* the operands written side by side
Operands ==
  {<<Num(2)>>, <<Ch("x")>>, <<Ch("("), Ch("x"), Ch("+"), Num(1), Ch(")")>>}

\* the exponents written after ^
Exponents ==
  {<<Num(n)>> : n \in ExponentLiterals}
    \cup {<<OneAndAHalf>>, <<Ch("x")>>, <<Ch("-"), Num(1)>>,
          <<Ch("("), Num(0), Ch("-"), Num(2), Ch(")")>>,
          <<Ch("("), Num(1), Ch("+"), Num(1), Ch(")")>>}

\* nothing is typed after a literal with a decimal point, and a digit typed
\* after a literal is part of that literal
TypeAnything ==
  /\ Len(equation) < MaxFree
  /\ \A i \in 1..Len(equation) : equation[i].c # "half"
  /\ \E l \in FreeAlphabet :
       /\ ~(l.c = "num" /\ Tok(equation, Len(equation)) = "num")
       /\ equation' = Append(equation, l)
       /\ expanded' = expandPolynomialManual(Append(equation, l))
  /\ UNCHANGED polyFrame

TypeAdjacent ==
  /\ equation = <<>>
  /\ \E left \in Operands : \E right \in Operands :
       /\ ~(left = <<Num(2)>> /\ right = <<Num(2)>>)
       /\ equation' = left \o right
       /\ expanded' = expandPolynomialManual(left \o right)
  /\ UNCHANGED polyFrame

TypePower ==
  /\ equation = <<>>
  /\ \E base \in Operands : \E exponent \in Exponents :
       /\ equation' = base \o <<Ch("^")>> \o exponent
       /\ expanded' = expandPolynomialManual(base \o <<Ch("^")>> \o exponent)
  /\ UNCHANGED polyFrame

NextExpand == TypeAnything \/ TypeAdjacent \/ TypePower

SpecExpand == InitDet /\ [][NextExpand]_vars

\* the characters the tokenizer knows
IsKnown(l) == l.c \in {"num", "half", "x", "+", "-", "*", "^", "(", ")", " "}

\* every ")" closes a "(" written before it, and every "(" is closed
RECURSIVE BalancedFrom(_, _, _)
BalancedFrom(str, i, open) ==
  IF i > Len(str) THEN open = 0
  ELSE IF str[i].c = "(" THEN BalancedFrom(str, i + 1, open + 1)
  ELSE IF str[i].c = ")" THEN open > 0 /\ BalancedFrom(str, i + 1, open - 1)
  ELSE BalancedFrom(str, i + 1, open)

Balanced(str) == BalancedFrom(str, 1, 0)

\* C21: an expression with a character the expander does not know, or with
\* unbalanced parentheses, gives a parse error and never the coefficients of
\* another expression.
C21_MalformedIsAnError ==
  ((\E i \in 1..Len(equation) : ~IsKnown(equation[i])) \/ ~Balanced(equation))
    => expanded.error

\* the exponent is an expression whose value is a constant 0, 1, 2, ...
IsNaturalConstant(exponent) ==
  /\ WellFormed(exponent)
  /\ Len(RefParse(exponent).p) <= 1
  /\ \A k \in 1..Len(RefParse(exponent).p) : RefParse(exponent).p[k] >= 0

\* C22: ^ is applied only to an exponent that reduces to a non-negative
\* integer constant; for an exponent with x, a negative one and one that is
\* not an integer, such as 1.5, the expander gives an error and no
\* coefficients.
C22_OtherExponentsAreErrors ==
  \A base \in Operands : \A exponent \in Exponents :
    (equation = base \o <<Ch("^")>> \o exponent /\ ~IsNaturalConstant(exponent))
      => (expanded.error /\ expanded.coefficients = <<>>)

\* an exponent with x and a negative exponent are errors, and a natural
\* literal is applied
IntegerExponents ==
  \A base \in Operands : \A exponent \in Exponents \ {<<OneAndAHalf>>} :
    equation = base \o <<Ch("^")>> \o exponent =>
      (expanded.error <=> ~IsNaturalConstant(exponent))

\* the product of two operands in the polynomial ring, highest power first
ProductOf(left, right) == Descending(RingMul(RefParse(left).p, RefParse(right).p))

\* C23: two operands written side by side with no operator between them
\* (number, x or a parenthesised group, in every combination) are multiplied:
\* the expansion is the product of the two.
C23_AdjacentOperandsMultiplied ==
  \A left \in Operands : \A right \in Operands :
    (equation = left \o right /\ ~(left = <<Num(2)>> /\ right = <<Num(2)>>))
      => (~expanded.error /\ expanded.coefficients = ProductOf(left, right))

\* the combinations in which tokenize looks at the next character: a number
\* before x or "(", x before "(", and ")" before "(" or x
ImplicitTimesInserted ==
  \A left \in Operands : \A right \in Operands :
    (/\ equation = left \o right
     /\ \/ (left = <<Num(2)>> /\ right # <<Num(2)>>)
        \/ (left = <<Ch("x")>> /\ Head(right).c = "(")
        \/ (left[Len(left)].c = ")" /\ right # <<Num(2)>>))
      => (~expanded.error /\ expanded.coefficients = ProductOf(left, right))

\* C26: a coefficient list that expandPolynomialManual returns without error
\* is not empty, has the highest power first, and its first coefficient is
\* not zero unless the list is the single entry 0: its length is the degree
\* plus one.
C26_LeadingCoefficientNonZero ==
  ~expanded.error =>
    /\ Len(expanded.coefficients) >= 1
    /\ expanded.coefficients[1] # 0 \/ expanded.coefficients = <<0>>
    /\ WellFormed(equation) =>
         /\ Reverse(expanded.coefficients) = (IF RefParse(equation).p = <<>> THEN <<0>>
                                              ELSE RefParse(equation).p)
         /\ Len(expanded.coefficients) = Max(Len(RefParse(equation).p), 1)

\* "x-x" and "0*x^2" have been expanded: the powers that cancelled are gone
C26_Witness ==
  /\ equation \in {<<Ch("x"), Ch("-"), Ch("x")>>,
                    <<Num(0), Ch("*"), Ch("x"), Ch("^"), Num(2)>>,
                    <<Num(0), Ch("*"), Ch("x")>>}
  /\ expanded = [error |-> FALSE, coefficients |-> <<0>>]

(***************************************************************************)
(* rref on matrices with entries that are approximately zero.  The scale   *)
(* of the model: the tolerance is 1/10 and a tiny entry is 1/100 in        *)
(* absolute value; rref compares with 0 and with 1 only, so nothing in it  *)
(* depends on the scale.                                                   *)
(***************************************************************************)
PivotTolerance == Rat(1, 10)

Tiny == Rat(1, 100)

\* non-zero and below the tolerance in absolute value
BelowTolerance(a) ==
  a # Zero /\ Abs(a.num) * PivotTolerance.den < a.den * PivotTolerance.num

TinyEntries == {Zero, Tiny, RatNeg(Tiny), One, RatNeg(One)}

InitPivot ==
  /\ EigenIdle
  /\ BasisIdle
  /\ QrIdle
  /\ RunIdle
  /\ AppIdle
  /\ SeedIdle
  /\ DetIdle
  /\ PolyIdle
  /\ RootsIdle
  /\ NewtonIdle
  /\ TierIdle
  /\ \E r \in 1..2 : \E c \in 1..2 : rrefInput \in [1..r -> [1..c -> TinyEntries]]
  /\ rrefOutput = [done |-> FALSE, matrix |-> <<>>, ops |-> <<>>]
  /\ nullSpaceBasis = [done |-> FALSE, vectors |-> <<>>]

NextPivot == RowReduce \/ RowReduceAgain

SpecPivot == InitPivot /\ [][NextPivot]_vars

\* C24: rref treats a candidate pivot below the tolerance as no pivot: it is
\* not selected, no row is scaled by the reciprocal of such a value, and a
\* column with no entry above the tolerance is skipped.
C24_TinyPivotIsNoPivot ==
  rrefOutput.done =>
    /\ \A k \in 1..Len(rrefOutput.ops) :
         rrefOutput.ops[k].op = "E2" => ~BelowTolerance(RatInv(rrefOutput.ops[k].scalar))
    /\ (\A i \in 1..Len(rrefInput) : \A j \in 1..Len(rrefInput[1]) :
          rrefInput[i][j] = Zero \/ BelowTolerance(rrefInput[i][j]))
         => rrefOutput.matrix = rrefInput

\* what rref does: every pivot it scales by is an entry that is not 0
PivotIsAnyNonZero ==
  rrefOutput.done =>
    /\ isReducedRowEchelonForm(rrefOutput.matrix)
    /\ rrefInput = <<<<Tiny>>>> => rrefOutput.matrix = <<<<One>>>>

(***************************************************************************)
(* The size input and the cell inputs of MatrixInput, with the text typed  *)
(* into them: a text is a sequence of characters.                          *)
(***************************************************************************)
\* at most this many non-zero cells are typed into the matrix
MaxTyped == 1

Digits == {"0", "1", "2", "5", "6"}

DigitValue(c) ==
  CASE c = "0" -> 0 [] c = "1" -> 1 [] c = "2" -> 2 [] c = "5" -> 5 [] c = "6" -> 6

NaN == [nan |-> TRUE, v |-> 0]

Number(v) == [nan |-> FALSE, v |-> v]

\* the value of the digits of text from position i on, after the digits
\* already read
RECURSIVE leadingDigits(_, _, _)
leadingDigits(text, i, read) ==
  IF i <= Len(text) /\ text[i] \in Digits
  THEN leadingDigits(text, i + 1, Number(10 * read.v + DigitValue(text[i])))
  ELSE read

\* parseInt(text): an optional sign and the longest run of digits after it,
\* NaN when there is no digit there
parseInt(text) ==
  IF Len(text) >= 1 /\ text[1] = "-"
  THEN Only({IF magnitude.nan THEN NaN ELSE Number(-magnitude.v) :
               magnitude \in {leadingDigits(text, 2, NaN)}})
  ELSE leadingDigits(text, 1, NaN)

\* parseFloat(text) of a text without ".", "e" or "Infinity"
parseFloat(text) == parseInt(text)

\* parsed || fallback with 0 taken for truthy
orElseNaNOnly(parsed, fallback) == IF parsed.nan THEN fallback ELSE parsed.v

\* parsed || fallback: NaN, 0 and -0 are falsy
orElse(parsed, fallback) ==
  IF parsed.nan \/ parsed.v = 0 THEN fallback ELSE parsed.v

Texts(chars) == UNION {[1..n -> chars] : n \in 0..2}

SizeTexts == Texts(Digits \cup {"-", "a"})

CellTexts == Texts({"-", "1", "a"})

\* onChange of the size input of MatrixInput.tsx
SizeInput ==
  /\ \E text \in SizeTexts : updateMatrixSize(orElse(parseInt(text), 1))
  /\ UNCHANGED detFrame

\* onChange of the size input of the MatrixInput of Tour.tsx, whose
\* updateMatrixSize has the guard and the new matrix of MatrixInput.tsx
TourSizeInput ==
  /\ \E text \in SizeTexts :
       LET newSize == parseInt(text) IN
       IF ~newSize.nan /\ newSize.v > 0 /\ newSize.v <= MaxOrder
       THEN updateMatrixSize(newSize.v)
       ELSE UNCHANGED <<detVars, appVars>>
  /\ UNCHANGED detFrame

\* onChange of a cell input
CellInput ==
  /\ \E row \in 0..(size - 1) : \E col \in 0..(size - 1) : \E text \in CellTexts :
       LET numValue == orElse(parseFloat(text), 0)
           typed == NonZeroCount(matrix)
                      - (IF matrix[row + 1][col + 1] # 0 THEN 1 ELSE 0)
                      + (IF numValue # 0 THEN 1 ELSE 0)
       IN /\ typed <= MaxTyped
          /\ updateMatrixValue(row, col, numValue)
  /\ UNCHANGED detFrame

NextInput == SizeInput \/ TourSizeInput \/ CellInput

SpecInput == InitDet /\ [][NextInput]_vars

IsSquareOfOrder(m, n) == Len(m) = n /\ \A i \in 1..n : Len(m[i]) = n

\* the matrix m cut or padded with zeros to the order n
Resized(m, n) ==
  [i \in 1..n |-> [j \in 1..n |->
     IF i <= Len(m) /\ j <= Len(m) THEN m[i][j] ELSE 0]]

ChangedCells(m, after) ==
  {c \in (1..Len(m)) \X (1..Len(m)) : m[c[1]][c[2]] # after[c[1]][c[2]]}

\* size and matrix hold what MatrixInput may hold, and App was handed the
\* matrix of the state if it was handed any
SizeAndMatrixAgree ==
  /\ 1 <= size
  /\ size <= 5
  /\ IsSquareOfOrder(matrix, size)
  /\ appMatrix # <<>> => appMatrix = matrix

\* a change of the size is a change to the matrix cut or padded to it; with
\* the size kept at most one cell changes, so that an input that is not
\* accepted changes nothing
AcceptedChange ==
  /\ size' # size => matrix' = Resized(matrix, size')
  /\ size' = size =>
       /\ IsSquareOfOrder(matrix', size)
       /\ Cardinality(ChangedCells(matrix, matrix')) <= 1

\* C27: after any size inputs (integers, zero, negative, above 5, not
\* numeric) and cell inputs (any text), the matrix in the state and passed
\* to onMatrixChange is square of the order size with 1 <= size <= 5, and a
\* size input that is rejected leaves matrix and size as they were.
C27_MatrixSquareOfOrderSize == [](SizeAndMatrixAgree) /\ [][AcceptedChange]_vars

\* the matrix was cut to the order 1 after "11" was typed into its first
\* cell, and App was handed it
C27_Witness ==
  /\ size = 1
  /\ matrix = <<<<11>>>>
  /\ appMatrix = matrix

(***************************************************************************)
(* App: MatrixInput hands every new matrix to App, EigenvalueSolution      *)
(* renders for the matrix of App and reports the eigenspaces to App.       *)
(***************************************************************************)
\* the matrices typed have at most this order
MaxAppOrder == 2

\* and at most this many non-zero cells
MaxAppNonZero == 2

\* the eigenspaces of the useMemo of EigenvalueSolution: those findEigenvalues
\* returned, [] when it threw
memoEigenspaces(m, mathEigsThrows) ==
  Only({IF result.threw THEN <<>> ELSE result.eigenspaces :
          result \in {findEigenvalues(m, mathEigsThrows)}})

\* The matrices typed are those whose real eigenvalues are all integers.
AppSizeInput ==
  /\ \E n \in 1..MaxAppOrder :
       /\ IntegerSpectrum(Resized(matrix, n))
       /\ updateMatrixSize(n)
  /\ UNCHANGED detFrame

AppCellInput ==
  /\ size <= MaxAppOrder
  /\ \E row \in 0..(size - 1) : \E col \in 0..(size - 1) : \E v \in CellValues :
       /\ NonZeroCount([matrix EXCEPT ![row + 1][col + 1] = v]) <= MaxAppNonZero
       /\ IntegerSpectrum([matrix EXCEPT ![row + 1][col + 1] = v])
       /\ updateMatrixValue(row, col, v)
  /\ UNCHANGED detFrame

\* EigenvalueSolution renders for the matrix of App: the useMemo runs, then
\* the useEffect calls onEigenspacesCalculated, which is handleEigenspacesChange.
\* math.eigs is taken not to throw on the matrices typed; findEigenvalues
\* throws on the [] App starts with.
RenderSolution ==
  /\ ~solutionMemo.current
  /\ LET eigenspaces == memoEigenspaces(appMatrix, FALSE) IN
     /\ solutionMemo' = [current |-> TRUE, eigenspaces |-> eigenspaces]
     /\ basisVectors' = IF Len(eigenspaces) > 0 THEN eigenspaces
                                                ELSE basisVectors
  /\ UNCHANGED <<appMatrix, detVars, detFrame>>

NextApp == AppSizeInput \/ AppCellInput \/ RenderSolution

SpecApp == InitDet /\ [][NextApp]_vars

\* C28: once EigenvalueSolution has computed for the latest matrix, the
\* eigenspaces App holds are the ones computed for it, the empty list
\* included.
C28_EigenspacesAreCurrent ==
  solutionMemo.current => basisVectors = solutionMemo.eigenspaces

\* what holds instead: App holds the last non-empty list computed
HoldsCurrentOrEarlier ==
  solutionMemo.current =>
    \/ basisVectors = solutionMemo.eigenspaces
    \/ solutionMemo.eigenspaces = <<>>

(***************************************************************************)
(* deflatePolynomial on a polynomial and an exact root of it, as the loop  *)
(* of optimizedNewtonRaphson applies it: root after root to what is left.  *)
(***************************************************************************)
\* the leading coefficients
LeadingCoefficients == {-2, -1, 1, 2}

Scaled(c, poly) == [k \in 1..Len(poly) |-> c * poly[k]]

\* c times one to three factors x - r, times 1 or x^2 + 1
DeflateInputs ==
  {Scaled(c, q) : c \in LeadingCoefficients,
                  q \in NewtonInputs(1, 0) \cup NewtonInputs(2, 0) \cup NewtonInputs(3, 0)
                         \cup NewtonInputs(1, 1) \cup NewtonInputs(2, 1)}

DeflateRoot ==
  /\ Len(deflatedCoeffs) >= 2
  /\ \E root \in (-MaxRoot)..MaxRoot :
       /\ evaluatePolynomial(deflatedCoeffs, root) = 0
       /\ newtonRoots' = Append(newtonRoots, root)
       /\ deflatedCoeffs' = deflatePolynomial(deflatedCoeffs, root)
  /\ UNCHANGED <<newtonCoeffs, rootIndex, startIndex, newtonReturn>>
  /\ UNCHANGED newtonFrame

InitDeflate ==
  /\ EigenIdle
  /\ BasisIdle
  /\ QrIdle
  /\ RunIdle
  /\ AppIdle
  /\ SeedIdle
  /\ DetIdle
  /\ PolyIdle
  /\ RrefIdle
  /\ RootsIdle
  /\ TierIdle
  /\ newtonCoeffs \in DeflateInputs
  /\ deflatedCoeffs = newtonCoeffs
  /\ newtonRoots = <<>>
  /\ rootIndex = 0
  /\ startIndex = 1
  /\ newtonReturn = [done |-> FALSE, roots |-> <<>>]

NextDeflate == DeflateRoot

SpecDeflate == InitDeflate /\ [][NextDeflate]_vars

\* C30: deflatePolynomial(p, r) for an exact root r of p of degree at least 1
\* is a polynomial q of degree deg(p) - 1 with the leading coefficient of p
\* and q(x) * (x - r) = p(x); stated of the roots divided out so far, each
\* from the result of the division before.
C30_DeflationIsExactDivision ==
  /\ Len(deflatedCoeffs) = Len(newtonCoeffs) - Len(newtonRoots)
  /\ deflatedCoeffs[1] = newtonCoeffs[1]
  /\ polyMultiply(deflatedCoeffs, FromRoots(newtonRoots)) = newtonCoeffs

\* two different roots were divided out of -2 (x - r)(x - s)(x^2 + 1)
C30_Witness ==
  /\ Len(newtonRoots) = 2
  /\ newtonRoots[1] # newtonRoots[2]
  /\ newtonCoeffs[1] = -2
  /\ deflatedCoeffs = <<-2, 0, -2>>

(***************************************************************************)
(* robustNewtonIteration, one pass of its loop at a time, in exact         *)
(* arithmetic.  Every number of the model is a fraction of integers below  *)
(* 2^31, so a number is below 1e-10, 1e-12, 1e-14 or 1e-15 in absolute     *)
(* value exactly when it is 0.  After a random perturbation of x the       *)
(* starting point is not followed further.                                 *)
(***************************************************************************)
\* the passes followed for a starting point
MaxPasses == 2

\* the starting points: the integers up to this one in absolute value
MaxSeedStart == 2

\* for (let iter = 0; iter < 100; iter++)
PassLimit == 100

RatAbs(a) == IF a.num < 0 THEN RatNeg(a) ELSE a

RatLess(a, b) == RatSign(RatSub(a, b)) < 0

RatMin(a, b) == IF RatLess(a, b) THEN a ELSE b

\* f.evaluate({ x: x }) at a fraction x, from the coefficient i on
RECURSIVE ratEvaluateFrom(_, _, _, _)
ratEvaluateFrom(coeffs, x, i, value) ==
  IF i > Len(coeffs) THEN value
  ELSE ratEvaluateFrom(coeffs, x, i + 1, RatAdd(RatMul(value, x), RatInt(coeffs[i])))

ratEvaluate(coeffs, x) == ratEvaluateFrom(coeffs, x, 1, Zero)

\* math.derivative(polyString, 'x')
derivative(coeffs) ==
  [k \in 1..(Len(coeffs) - 1) |-> coeffs[k] * (Len(coeffs) - k)]

\* newX = x - stepSize * fx / dfx
newtonTrial(coeffs, x, stepSize) ==
  RatSub(x, RatMul(stepSize,
                   RatMul(ratEvaluate(coeffs, x),
                          RatInv(ratEvaluate(derivative(coeffs), x)))))

\* Math.abs(newFx) <= Math.abs(fx)
isGoodStep(newFx, fx) == ~RatLess(RatAbs(fx), RatAbs(newFx))

InLoop == ~seed.ended /\ seed.iter < PassLimit /\ seed.iter < MaxPasses

\* Math.abs(fx) < 1e-12: return x
SeedFoundRoot ==
  /\ InLoop
  /\ ratEvaluate(seed.coeffs, seed.x) = Zero
  /\ seed' = [seed EXCEPT !.ended = TRUE, !.last = NoStep]
  /\ UNCHANGED seedFrame

\* Math.abs(dfx) < 1e-15: x += (Math.random() - 0.5) * 1e-6; continue
SeedPerturbed ==
  /\ InLoop
  /\ ratEvaluate(seed.coeffs, seed.x) # Zero
  /\ ratEvaluate(derivative(seed.coeffs), seed.x) = Zero
  /\ seed' = [seed EXCEPT !.ended = TRUE,
                           !.last = [NoStep EXCEPT !.kind = "perturbed"]]
  /\ UNCHANGED seedFrame

\* a pass that tries the step newX: accepted, x moves and the step size
\* grows; otherwise the step size shrinks and x stays.  With x # prevX after
\* an accepted step neither the convergence test nor the oscillation test
\* returns; the shrunk step size is not below 1e-12.
SeedTrial ==
  /\ InLoop
  /\ ratEvaluate(seed.coeffs, seed.x) # Zero
  /\ ratEvaluate(derivative(seed.coeffs), seed.x) # Zero
  /\ LET fx == ratEvaluate(seed.coeffs, seed.x)
         newX == newtonTrial(seed.coeffs, seed.x, seed.stepSize)
         newFx == ratEvaluate(seed.coeffs, newX)
     IN IF isGoodStep(newFx, fx)
        THEN seed' = [seed EXCEPT
                        !.stepSize = RatMin(Rat(6, 5), RatMul(@, Rat(21, 20))),
                        !.x = newX,
                        !.prevX = newX,
                        !.iter = @ + 1,
                        !.last = [kind |-> "accepted", fx |-> fx, newFx |-> newFx]]
        ELSE seed' = [seed EXCEPT
                        !.stepSize = RatMul(@, Rat(7, 10)),
                        !.iter = @ + 1,
                        !.last = [kind |-> "rejected", fx |-> fx, newFx |-> newFx]]
  /\ UNCHANGED seedFrame

\* x^2 + b x + c and the starting points of the model
SeedInputs == {<<1, b, c>> : b \in -1..1, c \in -3..3}

InitSeed ==
  /\ DetIdle
  /\ PolyIdle
  /\ RrefIdle
  /\ RootsIdle
  /\ NewtonIdle
  /\ TierIdle
  /\ EigenIdle
  /\ BasisIdle
  /\ QrIdle
  /\ RunIdle
  /\ AppIdle
  /\ \E coeffs \in SeedInputs : \E start \in (-MaxSeedStart)..MaxSeedStart :
       seed = [coeffs |-> coeffs, x |-> RatInt(start), stepSize |-> One,
               prevX |-> RatInt(start), iter |-> 0, last |-> NoStep,
               ended |-> FALSE]

NextSeed == SeedFoundRoot \/ SeedPerturbed \/ SeedTrial

SpecSeed == InitSeed /\ [][NextSeed]_vars

\* C29: a trial step is accepted only if it strictly reduces |f(x)|, a step
\* that is not accepted leaves x where it was, and no starting point takes
\* more than 100 passes.
C29_AcceptedStepsStrictlyReduce ==
  /\ seed.last.kind = "accepted" =>
       RatLess(RatAbs(seed.last.newFx), RatAbs(seed.last.fx))
  /\ seed.last.kind = "rejected" => seed.x = seed.prevX
  /\ seed.iter <= PassLimit

\* what holds instead: an accepted step does not increase |f(x)|
AcceptedStepsDoNotIncrease ==
  /\ seed.last.kind = "accepted" =>
       ~RatLess(RatAbs(seed.last.fx), RatAbs(seed.last.newFx))
  /\ seed.last.kind = "rejected" =>
       RatLess(RatAbs(seed.last.fx), RatAbs(seed.last.newFx))
  /\ seed.iter <= PassLimit

====
